---- MODULE Spec2Model ----
(***************************************************************************)
(* Expert state machine of the debate tool: Consultant, Debater and        *)
(* IDebater (backend/app/experts), their prompt resources                  *)
(* (backend/app/prompts), the operations initial_position,                 *)
(* initial_response and construct_argument, and the API client the experts *)
(* inherit (backend/app/api_clients/base.py).                              *)
(*                                                                         *)
(* Text is a sequence of atoms (an atom stands for a run of characters);   *)
(* concatenation is \o.  A Python value held in an attribute is a record   *)
(* [t, s]: t = "unset" (the attribute does not exist), "None", or "str"    *)
(* with the text s.                                                        *)
(***************************************************************************)
EXTENDS Integers, Sequences, FiniteSets, TLC

VARIABLES modules, experts, clients, last, history, resp, positioned, wire, cli, task

vars == <<modules, experts, clients, last, history, resp, positioned, wire, cli, task>>

\* ------------------------------------------------------------------ bounds
\* construct_argument is called only while _current_round < MaxRound
MaxRound == 3
\* initial_position is called at most MaxPositions times on one expert
MaxPositions == 2

\* ------------------------------------------------------------ Python values
Unset == [t |-> "unset", s |-> <<>>]
None == [t |-> "None", s |-> <<>>]
Str(s) == [t |-> "str", s |-> s]

IsSet(v) == v.t # "unset"

\* truthiness of a value: None and "" are falsy
Truthy(v) == v.t = "str" /\ v.s # <<>>

\* variant: the second operand is preferred
Or_SecondFirst(a, b) == IF Truthy(b) THEN b ELSE a

\* a or b
Or(a, b) == IF Truthy(a) THEN a ELSE b

\* decimal digits of a natural number, as str(n) gives them
RECURSIVE Digits(_)
Digits(n) ==
    LET d == <<"0", "1", "2", "3", "4", "5", "6", "7", "8", "9">>
    IN IF n < 10 THEN <<d[n + 1]>> ELSE Digits(n \div 10) \o <<d[(n % 10) + 1]>>

\* str(v), the conversion Template.substitute applies to each argument
ToStr(v) == IF v.t = "None" THEN <<"None">> ELSE v.s

\* dict.get(k): the value, or None when the key is absent
Get(d, k) == IF k \in DOMAIN d THEN Str(d[k]) ELSE None

\* ------------------------------------------------------- string.Template
\* a template is a sequence of items: a literal atom or a $placeholder
Lit(a) == [ph |-> FALSE, s |-> a]
Ph(n) == [ph |-> TRUE, s |-> n]

Placeholders(tpl) == {tpl[i].s : i \in {j \in DOMAIN tpl : tpl[j].ph}}

RECURSIVE Fill(_, _)
Fill(tpl, kw) ==
    IF tpl = <<>> THEN <<>>
    ELSE (IF Head(tpl).ph THEN kw[Head(tpl).s] ELSE <<Head(tpl).s>>)
         \o Fill(Tail(tpl), kw)

\* Template.substitute(**kw): KeyError when a placeholder has no argument
Substitute(tpl, kw) ==
    IF Placeholders(tpl) \subseteq DOMAIN kw
    THEN [err |-> "", text |-> Fill(tpl, kw)]
    ELSE [err |-> "KeyError", text |-> <<>>]

\* ------------------------------------------------------ prompt resources
\* backend/app/prompts/debater_prompt.py
debater ==
    [system |-> <<Lit("d:You will act as an expert debater named "), Ph("name"),
                  Lit("d: ... Do not exceed "), Ph("word_limit"),
                  Lit("d: words per argument ...")>>,
     thinking_advice |->
        [first_round_thinking |-> <<"d:1. Consider what extra context the judge needs">>,
         second_round_thinking |-> <<"d:1. List out the biggest flaws">>,
         nth_round_thinking |-> <<"d:1. List the critiques the opponent has made">>],
     new_argument |->
        [opening_argument_request |->
            <<Lit("d:Now it's your turn to construct your opening argument for "),
              Ph("question"), Lit("d: is "), Ph("answer_defending"), Lit("d:.")>>,
         nth_argument_request |->
            <<Lit("d:Now it's your turn to construct your next argument for "),
              Ph("question"), Lit("d: is "), Ph("answer_defending"), Lit("d:.")>>],
     user_question |->
        <<Lit("d:<question>"), Ph("question"), Lit("d:<your_answer>"),
          Ph("answer_defending"), Lit("d:<opponent_answer>"), Ph("answer_opposing"),
          Lit("d:Please restate your position")>>,
     assistant_response |->
        <<Lit("d:I understand. I will argue that the answer to "), Ph("question"),
          Lit("d: is "), Ph("answer_defending"), Lit("d:. I will argue against "),
          Ph("answer_opposing"), Lit("d:.")>>,
     user_request |->
        <<Lit("d:<story>"), Ph("story"), Lit("d:</story><transcript>"),
          Ph("transcript"), Lit("d:</transcript>"), Ph("new_argument_request"),
          Lit("d:First, think about your argument"), Ph("thinking_advice"),
          Lit("d:Finally ... Do not exceed "), Ph("word_limit"), Lit("d: words.")>>]

\* backend/app/prompts/consultant_prompt.py: the same names and placeholders
consultant ==
    [system |-> <<Lit("c:You will act as an expert consultant named "), Ph("name"),
                  Lit("c: ... Do not exceed "), Ph("word_limit"),
                  Lit("c: words per argument ...")>>,
     thinking_advice |->
        [first_round_thinking |-> <<"c:first round advice">>,
         second_round_thinking |-> <<"c:second round advice">>,
         nth_round_thinking |-> <<"c:nth round advice">>],
     new_argument |->
        [opening_argument_request |->
            <<Lit("c:construct your opening argument for "),
              Ph("question"), Lit("c: is "), Ph("answer_defending"), Lit("c:.")>>,
         nth_argument_request |->
            <<Lit("c:construct your next argument for "),
              Ph("question"), Lit("c: is "), Ph("answer_defending"), Lit("c:.")>>],
     user_question |->
        <<Lit("c:<question>"), Ph("question"), Lit("c:<your_answer>"),
          Ph("answer_defending"), Lit("c:<opponent_answer>"), Ph("answer_opposing"),
          Lit("c:Please restate your position")>>,
     assistant_response |->
        <<Lit("c:I understand. I will argue that the answer to "), Ph("question"),
          Lit("c: is "), Ph("answer_defending"), Lit("c:. I will argue against "),
          Ph("answer_opposing"), Lit("c:.")>>,
     user_request |->
        <<Lit("c:<story>"), Ph("story"), Lit("c:</story><transcript>"),
          Ph("transcript"), Lit("c:</transcript>"), Ph("new_argument_request"),
          Lit("c:First, think about your argument"), Ph("thinking_advice"),
          Lit("c:Finally ... Do not exceed "), Ph("word_limit"), Lit("c: words.")>>]

\* backend/app/prompts/interactive_debater_prompt.py: the question template
\* shows both answers by letter
interactive_debater ==
    [system |-> <<Lit("i:You will act as an expert debater named "), Ph("name"),
                  Lit("i: ... Do not exceed "), Ph("word_limit"),
                  Lit("i: words per argument ...")>>,
     thinking_advice |->
        [first_round_thinking |-> <<"i:first round advice">>,
         second_round_thinking |-> <<"i:second round advice">>,
         nth_round_thinking |-> <<"i:nth round advice">>],
     new_argument |->
        [opening_argument_request |->
            <<Lit("i:construct your opening argument for "),
              Ph("question"), Lit("i: is "), Ph("answer_defending"), Lit("i:.")>>,
         nth_argument_request |->
            <<Lit("i:construct your next argument for "),
              Ph("question"), Lit("i: is "), Ph("answer_defending"), Lit("i:.")>>],
     user_question |->
        <<Lit("i:<question>"), Ph("question"), Lit("i:<A>"), Ph("answer_a"),
          Lit("i:<B>"), Ph("answer_b"), Lit("i:you defend "),
          Ph("answer_defending_letter"), Lit("i:and oppose "),
          Ph("answer_opposing_letter"), Lit("i:argued by "), Ph("opponent_name")>>,
     assistant_response |->
        <<Lit("i:I understand. I will argue that the answer to "), Ph("question"),
          Lit("i: is "), Ph("answer_defending"), Lit("i:. I will argue against "),
          Ph("answer_opposing"), Lit("i:.")>>,
     user_request |->
        <<Lit("i:<story>"), Ph("story"), Lit("i:</story><transcript>"),
          Ph("transcript"), Lit("i:</transcript>"), Ph("new_argument_request"),
          Lit("i:First, think about your argument"), Ph("thinking_advice"),
          Lit("i:Finally ... Do not exceed "), Ph("word_limit"), Lit("i: words.")>>]

\* a template with a placeholder that no caller supplies
Malformed(tpl) == tpl \o <<Ph("undefined")>>

\* which template of the resources is malformed, if any
Breakages == {"none", "opening_argument_request", "nth_argument_request", "user_request"}

Broken(m, b) ==
    IF b = "none" THEN m
    ELSE IF b = "user_request"
         THEN [m EXCEPT !.user_request = Malformed(m.user_request)]
         ELSE [m EXCEPT !.new_argument[b] = Malformed(m.new_argument[b])]

\* the prompt modules as the experts import them
ModulesWith(b) ==
    [debater |-> Broken(debater, b),
     consultant |-> Broken(consultant, b),
     interactive_debater |-> Broken(interactive_debater, b)]

\* ------------------------------------------------------------ the experts
Classes == {"Consultant", "Debater", "IDebater"}

\* Consultant.__init__
Consultant_init(name, word_limit) ==
    [class |-> "Consultant",
     protocol |-> "consultant",
     name |-> name,
     word_limit |-> word_limit,
     system |-> Substitute(modules["consultant"].system,
                           [name |-> name, word_limit |-> Digits(word_limit)]).text,
     thinking_advice |-> modules["consultant"].thinking_advice,
     current_round |-> 0,
     question |-> Unset,
     answer_defending |-> Unset,
     answer_opposing |-> Unset,
     current_argument |-> Unset,
     opponent_name |-> Unset,
     answer_a |-> Unset,
     answer_b |-> Unset,
     answer_defending_letter |-> Unset,
     answer_opposing_letter |-> Unset]

\* Debater.__init__
Debater_init(name, word_limit) ==
    [class |-> "Debater",
     protocol |-> "debater",
     name |-> name,
     word_limit |-> word_limit,
     system |-> Substitute(modules["debater"].system,
                           [name |-> name, word_limit |-> Digits(word_limit)]).text,
     thinking_advice |-> modules["debater"].thinking_advice,
     current_round |-> 0,
     question |-> Unset,
     answer_defending |-> Unset,
     answer_opposing |-> Unset,
     current_argument |-> Unset,
     opponent_name |-> Unset,
     answer_a |-> Unset,
     answer_b |-> Unset,
     answer_defending_letter |-> Unset,
     answer_opposing_letter |-> Unset]

\* variant: the interactive resources are bound but the system prompt is not
\* rendered again
IDebater_init_KeepsDebaterSystem(name, word_limit) ==
    LET base == Debater_init(name, word_limit)
    IN [base EXCEPT
          !.class = "IDebater",
          !.protocol = "interactive_debater",
          !.thinking_advice = modules["interactive_debater"].thinking_advice,
          !.current_round = 0]

\* IDebater.__init__: Debater.__init__, then the interactive resources
IDebater_init(name, word_limit) ==
    LET base == Debater_init(name, word_limit)
    IN [base EXCEPT
          !.class = "IDebater",
          !.protocol = "interactive_debater",
          !.system = Substitute(modules["interactive_debater"].system,
                                [name |-> base.name,
                                 word_limit |-> Digits(base.word_limit)]).text,
          !.thinking_advice = modules["interactive_debater"].thinking_advice,
          !.current_round = 0]

\* the bindings an object goes through while __init__ runs: one entry for each
\* assignment of _protocol with the _system rendered from it
Consultant_init_steps(name, word_limit) ==
    <<[protocol |-> "consultant",
       system |-> Substitute(modules["consultant"].system,
                             [name |-> name, word_limit |-> Digits(word_limit)]).text]>>

Debater_init_steps(name, word_limit) ==
    <<[protocol |-> "debater",
       system |-> Substitute(modules["debater"].system,
                             [name |-> name, word_limit |-> Digits(word_limit)]).text]>>

\* IDebater.__init__ runs Debater.__init__ first
IDebater_init_steps(name, word_limit) ==
    Debater_init_steps(name, word_limit)
    \o <<[protocol |-> "interactive_debater",
          system |-> Substitute(modules["interactive_debater"].system,
                                [name |-> name, word_limit |-> Digits(word_limit)]).text]>>

init_steps(class, name, word_limit) ==
    CASE class = "Consultant" -> Consultant_init_steps(name, word_limit)
      [] class = "Debater" -> Debater_init_steps(name, word_limit)
      [] class = "IDebater" -> IDebater_init_steps(name, word_limit)

New(class, name, word_limit) ==
    CASE class = "Consultant" -> Consultant_init(name, word_limit)
      [] class = "Debater" -> Debater_init(name, word_limit)
      [] class = "IDebater" -> IDebater_init(name, word_limit)

\* the outcome of a call: the exception raised ("" when it returns), the
\* value returned, the object as the call leaves it, and the keys it chose
Outcome(err, ret, self, thinking, request) ==
    [err |-> err, ret |-> ret, self |-> self, thinking |-> thinking, request |-> request]

\* --------------------------------------------------------- the API client
\* no provider client
NoSession == [class |-> "", api_key |-> ""]

\* a provider client of the given class, and the record of its construction
Made(class, api_key) ==
    LET session == [class |-> class, api_key |-> api_key]
    IN [err |-> "", session |-> session, made |-> <<session>>]

\* variant: an unknown provider gets an OpenAI client
APIClient_initialize_client_DefaultsToOpenAI(self) ==
    IF self.provider = "anthropic"
    THEN Made("Anthropic", self.api_key)
    ELSE Made("OpenAI", self.api_key)

\* APIClient._initialize_client: the provider's client object, made with the
\* API key, or ValueError
APIClient_initialize_client(self) ==
    IF self.provider = "openai"
    THEN Made("OpenAI", self.api_key)
    ELSE IF self.provider = "anthropic"
    THEN Made("Anthropic", self.api_key)
    ELSE [err |-> "ValueError", session |-> NoSession, made |-> <<>>]

\* APIClient.__init__: the part of an expert every class inherits
APIClient_init(api_key, provider, model) ==
    LET self == [api_key |-> api_key, provider |-> provider, model |-> model,
                 session |-> NoSession]
        c == APIClient_initialize_client(self)
    IN [err |-> c.err, self |-> [self EXCEPT !.session = c.session], made |-> c.made]

\* variant: a request without max_tokens asks for 1000 tokens
Request_Default1000(api, model, prompt, kwargs) ==
    [api |-> api, model |-> model, content |-> prompt,
     max_tokens |-> IF "max_tokens" \in DOMAIN kwargs THEN kwargs["max_tokens"] ELSE 1000]

\* the request a provider receives, and the method of its client that was
\* called with it
Request(api, model, prompt, kwargs) ==
    [api |-> api, model |-> model, content |-> prompt,
     max_tokens |-> IF "max_tokens" \in DOMAIN kwargs THEN kwargs["max_tokens"] ELSE 150]

\* APIClient._call_openai; reply is what the provider does with the request
APIClient_call_openai(self, prompt, model, kwargs, reply) ==
    IF self.session.class # "OpenAI"
    THEN [err |-> "ValueError", ret |-> <<>>, self |-> self, sent |-> <<>>]
    ELSE IF reply = "error"
    THEN [err |-> "APIError", ret |-> <<>>, self |-> self,
          sent |-> <<Request("chat.completions.create", model, prompt, kwargs)>>]
    ELSE [err |-> "", ret |-> <<"response.choices[0].message">>, self |-> self,
          sent |-> <<Request("chat.completions.create", model, prompt, kwargs)>>]

\* APIClient._call_anthropic
APIClient_call_anthropic(self, prompt, model, kwargs, reply) ==
    IF self.session.class # "Anthropic"
    THEN [err |-> "ValueError", ret |-> <<>>, self |-> self, sent |-> <<>>]
    ELSE IF reply = "error"
    THEN [err |-> "APIError", ret |-> <<>>, self |-> self,
          sent |-> <<Request("messages.create", model, prompt, kwargs)>>]
    ELSE [err |-> "", ret |-> <<"response">>, self |-> self,
          sent |-> <<Request("messages.create", model, prompt, kwargs)>>]

\* variant: the model of the call is ignored
APIClient_call_api_DefaultModelOnly(self, prompt, model, kwargs, reply) ==
    LET m == self.model
    IN IF self.provider = "openai"
       THEN APIClient_call_openai(self, prompt, m, kwargs, reply)
       ELSE IF self.provider = "anthropic"
       THEN APIClient_call_anthropic(self, prompt, m, kwargs, reply)
       ELSE [err |-> "", ret |-> <<"None">>, self |-> self, sent |-> <<>>]

\* variant: a provider call that fails is made a second time
APIClient_call_api_Retries(self, prompt, model, kwargs, reply) ==
    LET m == IF model # "" THEN model ELSE self.model
        r == IF self.provider = "openai"
             THEN APIClient_call_openai(self, prompt, m, kwargs, reply)
             ELSE IF self.provider = "anthropic"
             THEN APIClient_call_anthropic(self, prompt, m, kwargs, reply)
             ELSE [err |-> "", ret |-> <<"None">>, self |-> self, sent |-> <<>>]
    IN IF r.err = "APIError" THEN [r EXCEPT !.sent = @ \o @] ELSE r

\* APIClient.call_api: the model argument or the default, one provider call,
\* its exception logged and raised again
APIClient_call_api(self, prompt, model, kwargs, reply) ==
    LET m == IF model # "" THEN model ELSE self.model
    IN IF self.provider = "openai"
       THEN APIClient_call_openai(self, prompt, m, kwargs, reply)
       ELSE IF self.provider = "anthropic"
       THEN APIClient_call_anthropic(self, prompt, m, kwargs, reply)
       ELSE [err |-> "", ret |-> <<"None">>, self |-> self, sent |-> <<>>]

\* ------------------------------------------------------------- operations
\* variant: setting the position also restarts the round counter
Consultant_initial_position_ResetsRound(self, question, answer_defending, answer_opposing) ==
    LET stored == [self EXCEPT !.question = Str(question),
                               !.answer_defending = Str(answer_defending),
                               !.answer_opposing = Str(answer_opposing),
                               !.current_round = 0]
        r == Substitute(modules[self.protocol].user_question,
                        [question |-> ToStr(stored.question),
                         answer_defending |-> ToStr(stored.answer_defending),
                         answer_opposing |-> ToStr(stored.answer_opposing)])
    IN Outcome(r.err, r.text, stored, "", "")

\* Consultant.initial_position
Consultant_initial_position(self, question, answer_defending, answer_opposing) ==
    LET stored == [self EXCEPT !.question = Str(question),
                               !.answer_defending = Str(answer_defending),
                               !.answer_opposing = Str(answer_opposing)]
        r == Substitute(modules[self.protocol].user_question,
                        [question |-> ToStr(stored.question),
                         answer_defending |-> ToStr(stored.answer_defending),
                         answer_opposing |-> ToStr(stored.answer_opposing)])
    IN Outcome(r.err, r.text, stored, "", "")

\* variant: setting the position also restarts the round counter
Debater_initial_position_ResetsRound(self, question, answer_defending, answer_opposing) ==
    LET stored == [self EXCEPT !.question = Str(question),
                               !.answer_defending = Str(answer_defending),
                               !.answer_opposing = Str(answer_opposing),
                               !.current_round = 0]
        r == Substitute(modules[self.protocol].user_question,
                        [question |-> ToStr(stored.question),
                         answer_defending |-> ToStr(stored.answer_defending),
                         answer_opposing |-> ToStr(stored.answer_opposing)])
    IN Outcome(r.err, r.text, stored, "", "")

\* variant: a position that is already set is kept
Debater_initial_position_KeepsFirst(self, question, answer_defending, answer_opposing) ==
    LET stored == IF IsSet(self.question) THEN self
                  ELSE [self EXCEPT !.question = Str(question),
                                    !.answer_defending = Str(answer_defending),
                                    !.answer_opposing = Str(answer_opposing)]
        r == Substitute(modules[self.protocol].user_question,
                        [question |-> ToStr(stored.question),
                         answer_defending |-> ToStr(stored.answer_defending),
                         answer_opposing |-> ToStr(stored.answer_opposing)])
    IN Outcome(r.err, r.text, stored, "", "")

\* Debater.initial_position
Debater_initial_position(self, question, answer_defending, answer_opposing) ==
    LET stored == [self EXCEPT !.question = Str(question),
                               !.answer_defending = Str(answer_defending),
                               !.answer_opposing = Str(answer_opposing)]
        r == Substitute(modules[self.protocol].user_question,
                        [question |-> ToStr(stored.question),
                         answer_defending |-> ToStr(stored.answer_defending),
                         answer_opposing |-> ToStr(stored.answer_opposing)])
    IN Outcome(r.err, r.text, stored, "", "")

\* variant: the defending letter is decided against the opposing map
IDebater_initial_position_WrongMap(self, question, answer_defending, answer_opposing, opponent_name) ==
    LET s1 == [self EXCEPT !.question = Str(question),
                           !.opponent_name = Str(opponent_name)]
        a == Or(Get(answer_defending, "A"), Get(answer_opposing, "A"))
        b == Or(Get(answer_defending, "B"), Get(answer_opposing, "B"))
        dl == IF a = Get(answer_opposing, "A") THEN "A" ELSE "B"
        s3 == [s1 EXCEPT !.answer_a = a, !.answer_b = b,
                         !.answer_defending_letter = Str(<<dl>>)]
    IN IF dl \notin DOMAIN answer_defending
       THEN Outcome("KeyError", <<>>, s3, "", "")
       ELSE
         LET ol == IF a = Get(answer_opposing, "A") THEN "A" ELSE "B"
             s5 == [s3 EXCEPT !.answer_defending = Str(answer_defending[dl]),
                              !.answer_opposing_letter = Str(<<ol>>)]
         IN IF ol \notin DOMAIN answer_opposing
            THEN Outcome("KeyError", <<>>, s5, "", "")
            ELSE
              LET s6 == [s5 EXCEPT !.answer_opposing = Str(answer_opposing[ol])]
                  r == Substitute(modules[self.protocol].user_question,
                         [question |-> ToStr(s6.question),
                          answer_a |-> ToStr(s6.answer_a),
                          answer_b |-> ToStr(s6.answer_b),
                          answer_defending_letter |-> ToStr(s6.answer_defending_letter),
                          answer_opposing_letter |-> ToStr(s6.answer_opposing_letter),
                          opponent_name |-> ToStr(s6.opponent_name)])
              IN Outcome(r.err, r.text, s6, "", "")

\* variant: answer_a and answer_b hold the defending and the opposing text,
\* whatever their letters
IDebater_initial_position_TextsByRole(self, question, answer_defending, answer_opposing, opponent_name) ==
    LET s1 == [self EXCEPT !.question = Str(question),
                           !.opponent_name = Str(opponent_name)]
        a == Or(Get(answer_defending, "A"), Get(answer_opposing, "A"))
        b == Or(Get(answer_defending, "B"), Get(answer_opposing, "B"))
        dl == IF a = Get(answer_defending, "A") THEN "A" ELSE "B"
        s3 == [s1 EXCEPT !.answer_a = Or(Get(answer_defending, "A"), Get(answer_defending, "B")),
                         !.answer_b = Or(Get(answer_opposing, "A"), Get(answer_opposing, "B")),
                         !.answer_defending_letter = Str(<<dl>>)]
    IN IF dl \notin DOMAIN answer_defending
       THEN Outcome("KeyError", <<>>, s3, "", "")
       ELSE
         LET ol == IF a = Get(answer_opposing, "A") THEN "A" ELSE "B"
             s5 == [s3 EXCEPT !.answer_defending = Str(answer_defending[dl]),
                              !.answer_opposing_letter = Str(<<ol>>)]
         IN IF ol \notin DOMAIN answer_opposing
            THEN Outcome("KeyError", <<>>, s5, "", "")
            ELSE
              LET s6 == [s5 EXCEPT !.answer_opposing = Str(answer_opposing[ol])]
                  r == Substitute(modules[self.protocol].user_question,
                         [question |-> ToStr(s6.question),
                          answer_a |-> ToStr(s6.answer_a),
                          answer_b |-> ToStr(s6.answer_b),
                          answer_defending_letter |-> ToStr(s6.answer_defending_letter),
                          answer_opposing_letter |-> ToStr(s6.answer_opposing_letter),
                          opponent_name |-> ToStr(s6.opponent_name)])
              IN Outcome(r.err, r.text, s6, "", "")

\* IDebater.initial_position: the assignments in the order of the source; an
\* exception leaves the attributes assigned before it
IDebater_initial_position(self, question, answer_defending, answer_opposing, opponent_name) ==
    LET s1 == [self EXCEPT !.question = Str(question),
                           !.opponent_name = Str(opponent_name)]
        a == Or(Get(answer_defending, "A"), Get(answer_opposing, "A"))
        b == Or(Get(answer_defending, "B"), Get(answer_opposing, "B"))
        dl == IF a = Get(answer_defending, "A") THEN "A" ELSE "B"
        s3 == [s1 EXCEPT !.answer_a = a, !.answer_b = b,
                         !.answer_defending_letter = Str(<<dl>>)]
    IN IF dl \notin DOMAIN answer_defending
       THEN Outcome("KeyError", <<>>, s3, "", "")
       ELSE
         LET ol == IF a = Get(answer_opposing, "A") THEN "A" ELSE "B"
             s5 == [s3 EXCEPT !.answer_defending = Str(answer_defending[dl]),
                              !.answer_opposing_letter = Str(<<ol>>)]
         IN IF ol \notin DOMAIN answer_opposing
            THEN Outcome("KeyError", <<>>, s5, "", "")
            ELSE
              LET s6 == [s5 EXCEPT !.answer_opposing = Str(answer_opposing[ol])]
                  r == Substitute(modules[self.protocol].user_question,
                         [question |-> ToStr(s6.question),
                          answer_a |-> ToStr(s6.answer_a),
                          answer_b |-> ToStr(s6.answer_b),
                          answer_defending_letter |-> ToStr(s6.answer_defending_letter),
                          answer_opposing_letter |-> ToStr(s6.answer_opposing_letter),
                          opponent_name |-> ToStr(s6.opponent_name)])
              IN Outcome(r.err, r.text, s6, "", "")

\* Consultant.initial_response: reading an attribute that was never assigned
\* raises AttributeError
Consultant_initial_response(self) ==
    IF ~IsSet(self.question) \/ ~IsSet(self.answer_defending) \/ ~IsSet(self.answer_opposing)
    THEN Outcome("AttributeError", <<>>, self, "", "")
    ELSE LET r == Substitute(modules[self.protocol].assistant_response,
                     [question |-> ToStr(self.question),
                      answer_defending |-> ToStr(self.answer_defending),
                      answer_opposing |-> ToStr(self.answer_opposing)])
         IN Outcome(r.err, r.text, self, "", "")

\* variant: the position attributes exist from construction with the value
\* None, so a call before initial_position renders "None" and returns
Debater_initial_response_NoneDefaults(self) ==
    LET read(v) == IF IsSet(v) THEN ToStr(v) ELSE ToStr(None)
        r == Substitute(modules[self.protocol].assistant_response,
                [question |-> read(self.question),
                 answer_defending |-> read(self.answer_defending),
                 answer_opposing |-> read(self.answer_opposing)])
    IN Outcome(r.err, r.text, self, "", "")

\* variant: the response is also kept as the current argument
Debater_initial_response_Stores(self) ==
    IF ~IsSet(self.question) \/ ~IsSet(self.answer_defending) \/ ~IsSet(self.answer_opposing)
    THEN Outcome("AttributeError", <<>>, self, "", "")
    ELSE LET r == Substitute(modules[self.protocol].assistant_response,
                     [question |-> ToStr(self.question),
                      answer_defending |-> ToStr(self.answer_defending),
                      answer_opposing |-> ToStr(self.answer_opposing)])
         IN Outcome(r.err, r.text, [self EXCEPT !.current_argument = Str(r.text)], "", "")

\* Debater.initial_response (IDebater inherits it)
Debater_initial_response(self) ==
    IF ~IsSet(self.question) \/ ~IsSet(self.answer_defending) \/ ~IsSet(self.answer_opposing)
    THEN Outcome("AttributeError", <<>>, self, "", "")
    ELSE LET r == Substitute(modules[self.protocol].assistant_response,
                     [question |-> ToStr(self.question),
                      answer_defending |-> ToStr(self.answer_defending),
                      answer_opposing |-> ToStr(self.answer_opposing)])
         IN Outcome(r.err, r.text, self, "", "")

\* variant: the round advances before the request is rendered, so a failed
\* render leaves it advanced
RenderRequest_IncrementFirst(self, story, transcript, request, thinking) ==
    IF ~IsSet(self.question) \/ ~IsSet(self.answer_defending)
    THEN Outcome("AttributeError", <<>>, self, thinking, request)
    ELSE
      LET advanced == [self EXCEPT !.current_round = self.current_round + 1]
          inner == Substitute(modules[self.protocol].new_argument[request],
                     [question |-> ToStr(self.question),
                      answer_defending |-> ToStr(self.answer_defending)])
      IN IF inner.err # "" THEN Outcome(inner.err, <<>>, advanced, thinking, request)
         ELSE IF thinking \notin DOMAIN self.thinking_advice
         THEN Outcome("KeyError", <<>>, advanced, thinking, request)
         ELSE
           LET outer == Substitute(modules[self.protocol].user_request,
                          [story |-> story,
                           transcript |-> transcript,
                           new_argument_request |-> inner.text,
                           thinking_advice |-> self.thinking_advice[thinking],
                           word_limit |-> Digits(self.word_limit)])
           IN IF outer.err # "" THEN Outcome(outer.err, <<>>, advanced, thinking, request)
              ELSE Outcome("", outer.text,
                           [advanced EXCEPT !.current_argument = Str(outer.text)],
                           thinking, request)

\* variant: the position attributes exist from construction with the value
\* None, so a call before initial_position renders "None" and returns
RenderRequest_NoneDefaults(self, story, transcript, request, thinking) ==
    LET read(v) == IF IsSet(v) THEN ToStr(v) ELSE ToStr(None)
        inner == Substitute(modules[self.protocol].new_argument[request],
                   [question |-> read(self.question),
                    answer_defending |-> read(self.answer_defending)])
    IN IF inner.err # "" THEN Outcome(inner.err, <<>>, self, thinking, request)
       ELSE IF thinking \notin DOMAIN self.thinking_advice
       THEN Outcome("KeyError", <<>>, self, thinking, request)
       ELSE
         LET outer == Substitute(modules[self.protocol].user_request,
                        [story |-> story,
                         transcript |-> transcript,
                         new_argument_request |-> inner.text,
                         thinking_advice |-> self.thinking_advice[thinking],
                         word_limit |-> Digits(self.word_limit)])
         IN IF outer.err # "" THEN Outcome(outer.err, <<>>, self, thinking, request)
            ELSE Outcome("", outer.text,
                         [self EXCEPT !.current_argument = Str(outer.text),
                                      !.current_round = self.current_round + 1],
                         thinking, request)

\* variant: the advice used by a call is removed from the expert's advice
RenderRequest_ConsumesAdvice(self, story, transcript, request, thinking) ==
    IF ~IsSet(self.question) \/ ~IsSet(self.answer_defending)
    THEN Outcome("AttributeError", <<>>, self, thinking, request)
    ELSE
      LET inner == Substitute(modules[self.protocol].new_argument[request],
                     [question |-> ToStr(self.question),
                      answer_defending |-> ToStr(self.answer_defending)])
      IN IF inner.err # "" THEN Outcome(inner.err, <<>>, self, thinking, request)
         ELSE IF thinking \notin DOMAIN self.thinking_advice
         THEN Outcome("KeyError", <<>>, self, thinking, request)
         ELSE
           LET outer == Substitute(modules[self.protocol].user_request,
                          [story |-> story,
                           transcript |-> transcript,
                           new_argument_request |-> inner.text,
                           thinking_advice |-> self.thinking_advice[thinking],
                           word_limit |-> Digits(self.word_limit)])
           IN IF outer.err # "" THEN Outcome(outer.err, <<>>, self, thinking, request)
              ELSE Outcome("", outer.text,
                           [self EXCEPT !.current_argument = Str(outer.text),
                                        !.current_round = self.current_round + 1,
                                        !.thinking_advice =
                                           [k \in DOMAIN self.thinking_advice \ {thinking}
                                              |-> self.thinking_advice[k]]],
                           thinking, request)

\* variant: the argument of the first round is kept in later rounds
RenderRequest_KeepsFirstArgument(self, story, transcript, request, thinking) ==
    IF ~IsSet(self.question) \/ ~IsSet(self.answer_defending)
    THEN Outcome("AttributeError", <<>>, self, thinking, request)
    ELSE
      LET inner == Substitute(modules[self.protocol].new_argument[request],
                     [question |-> ToStr(self.question),
                      answer_defending |-> ToStr(self.answer_defending)])
      IN IF inner.err # "" THEN Outcome(inner.err, <<>>, self, thinking, request)
         ELSE IF thinking \notin DOMAIN self.thinking_advice
         THEN Outcome("KeyError", <<>>, self, thinking, request)
         ELSE
           LET outer == Substitute(modules[self.protocol].user_request,
                          [story |-> story,
                           transcript |-> transcript,
                           new_argument_request |-> inner.text,
                           thinking_advice |-> self.thinking_advice[thinking],
                           word_limit |-> Digits(self.word_limit)])
           IN IF outer.err # "" THEN Outcome(outer.err, <<>>, self, thinking, request)
              ELSE Outcome("", outer.text,
                           [self EXCEPT !.current_argument =
                                           IF IsSet(self.current_argument)
                                           THEN self.current_argument
                                           ELSE Str(outer.text),
                                        !.current_round = self.current_round + 1],
                           thinking, request)


\* variant: the rendered request is kept in place of the question
RenderRequest_OverwritesQuestion(self, story, transcript, request, thinking) ==
    IF ~IsSet(self.question) \/ ~IsSet(self.answer_defending)
    THEN Outcome("AttributeError", <<>>, self, thinking, request)
    ELSE
      LET inner == Substitute(modules[self.protocol].new_argument[request],
                     [question |-> ToStr(self.question),
                      answer_defending |-> ToStr(self.answer_defending)])
      IN IF inner.err # "" THEN Outcome(inner.err, <<>>, self, thinking, request)
         ELSE IF thinking \notin DOMAIN self.thinking_advice
         THEN Outcome("KeyError", <<>>, self, thinking, request)
         ELSE
           LET outer == Substitute(modules[self.protocol].user_request,
                          [story |-> story,
                           transcript |-> transcript,
                           new_argument_request |-> inner.text,
                           thinking_advice |-> self.thinking_advice[thinking],
                           word_limit |-> Digits(self.word_limit)])
           IN IF outer.err # "" THEN Outcome(outer.err, <<>>, self, thinking, request)
              ELSE Outcome("", outer.text,
                           [self EXCEPT !.current_argument = Str(outer.text),
                                        !.question = Str(inner.text),
                                        !.current_round = self.current_round + 1],
                           thinking, request)

\* the body shared by the two branches of construct_argument: the arguments of
\* user_request.substitute are evaluated left to right (the inner substitute
\* reads _question and _answer_defending, then the advice is looked up), the
\* result is assigned to _current_argument and only then the round advances
RenderRequest(self, story, transcript, request, thinking) ==
    IF ~IsSet(self.question) \/ ~IsSet(self.answer_defending)
    THEN Outcome("AttributeError", <<>>, self, thinking, request)
    ELSE
      LET inner == Substitute(modules[self.protocol].new_argument[request],
                     [question |-> ToStr(self.question),
                      answer_defending |-> ToStr(self.answer_defending)])
      IN IF inner.err # "" THEN Outcome(inner.err, <<>>, self, thinking, request)
         ELSE IF thinking \notin DOMAIN self.thinking_advice
         THEN Outcome("KeyError", <<>>, self, thinking, request)
         ELSE
           LET outer == Substitute(modules[self.protocol].user_request,
                          [story |-> story,
                           transcript |-> transcript,
                           new_argument_request |-> inner.text,
                           thinking_advice |-> self.thinking_advice[thinking],
                           word_limit |-> Digits(self.word_limit)])
           IN IF outer.err # "" THEN Outcome(outer.err, <<>>, self, thinking, request)
              ELSE Outcome("", outer.text,
                           [self EXCEPT !.current_argument = Str(outer.text),
                                        !.current_round = self.current_round + 1],
                           thinking, request)

\* variant: the consultant gets the debater's second-round advice
Consultant_construct_argument_WithSecond(self, story, transcript) ==
    IF self.current_round = 0
    THEN RenderRequest(self, story, transcript,
                       "opening_argument_request", "first_round_thinking")
    ELSE RenderRequest(self, story, transcript,
                       "nth_argument_request",
                       IF self.current_round = 1 THEN "second_round_thinking"
                                                 ELSE "nth_round_thinking")

\* variant: the opening request is used for the first two rounds
Consultant_construct_argument_OpeningTwice(self, story, transcript) ==
    IF self.current_round <= 1
    THEN RenderRequest(self, story, transcript,
                       "opening_argument_request",
                       IF self.current_round = 0 THEN "first_round_thinking"
                                                 ELSE "nth_round_thinking")
    ELSE RenderRequest(self, story, transcript,
                       "nth_argument_request", "nth_round_thinking")

\* Consultant.construct_argument
Consultant_construct_argument(self, story, transcript) ==
    IF self.current_round = 0
    THEN RenderRequest(self, story, transcript,
                       "opening_argument_request", "first_round_thinking")
    ELSE RenderRequest(self, story, transcript,
                       "nth_argument_request", "nth_round_thinking")

\* variant: the keys are chosen as if the round had already advanced
Debater_construct_argument_PostIncrement(self, story, transcript) ==
    IF self.current_round + 1 = 0
    THEN RenderRequest(self, story, transcript,
                       "opening_argument_request", "first_round_thinking")
    ELSE RenderRequest(self, story, transcript,
                       "nth_argument_request",
                       IF self.current_round + 1 = 1 THEN "second_round_thinking"
                                                     ELSE "nth_round_thinking")

\* variant: no second-round advice, as for the consultant
Debater_construct_argument_NoSecond(self, story, transcript) ==
    IF self.current_round = 0
    THEN RenderRequest(self, story, transcript,
                       "opening_argument_request", "first_round_thinking")
    ELSE RenderRequest(self, story, transcript,
                       "nth_argument_request", "nth_round_thinking")

\* Debater.construct_argument (IDebater inherits it)
Debater_construct_argument(self, story, transcript) ==
    IF self.current_round = 0
    THEN RenderRequest(self, story, transcript,
                       "opening_argument_request", "first_round_thinking")
    ELSE RenderRequest(self, story, transcript,
                       "nth_argument_request",
                       IF self.current_round = 1 THEN "second_round_thinking"
                                                 ELSE "nth_round_thinking")

\* method resolution by class
initial_response(self) ==
    IF self.class = "Consultant" THEN Consultant_initial_response(self)
                                 ELSE Debater_initial_response(self)

\* variant: the interactive debater is given the consultant's method
construct_argument_InteractiveAsConsultant(self, story, transcript) ==
    IF self.class = "Debater" THEN Debater_construct_argument(self, story, transcript)
                              ELSE Consultant_construct_argument(self, story, transcript)

construct_argument(self, story, transcript) ==
    IF self.class = "Consultant" THEN Consultant_construct_argument(self, story, transcript)
                                 ELSE Debater_construct_argument(self, story, transcript)

\* ------------------------------------------------------------ the callers
Experts == {"e1"}
Names == {<<"Test">>}
WordLimit == 100
Questions == {<<"Q1">>, <<"Q2">>}
InteractiveQuestions == {<<"Q1">>}
Answers == {<<"X">>, <<"Y">>}
Letters == {"A", "B"}
MapTexts == {<<>>, <<"X">>, <<"Y">>}
\* a letter map supplies one letter with its text
AnswerMaps == UNION {[D -> MapTexts] : D \in {{"A"}, {"B"}}}
OpponentNames == {<<"Bob">>}
Stories == {<<"story">>}
Transcripts == {<<"Consultant: reply", "">>}

ApiKeys == {"test_api_key"}
Providers == {"openai"}
Models == {"test_model"}
\* the model argument of call_api ("" when it is not given) and its keywords,
\* as set_initial_position and construct_argument of run_expert pass them
ModelArguments == {""}
Kwargs == {[k \in {"max_tokens"} |-> 1000]}
\* what a provider does with a request
Replies == {"response", "error"}

NoArgs == [question |-> <<>>, answer_defending |-> <<>>, answer_opposing |-> <<>>,
           opponent_name |-> <<>>, story |-> <<>>, transcript |-> <<>>]

\* the first initial_response since the last initial_position: its text and
\* the round it was made in
NoResponse == [seen |-> FALSE, text |-> <<>>, round |-> 0]

\* what the caller of the last operation saw
Call(op, e, args, r) ==
    [op |-> op, e |-> e, args |-> args, err |-> r.err, ret |-> r.ret,
     thinking |-> r.thinking, request |-> r.request]

\* wire holds the requests the provider received during the last operation
\* (none for an operation of the expert itself); cli is the state of the command-line session of run_expert
\* and task that of a tasks.py command, both idle in sessions without them
CliIdle ==
    [pc |-> "none", round |-> 0, transcript |-> <<>>, prompt |-> <<>>,
     passed |-> <<>>, replies |-> <<>>, log |-> <<>>, printed |-> <<>>]

TaskIdle ==
    [pc |-> "none", name |-> "", dry_run |-> FALSE, verbose |-> FALSE,
     interactive |-> FALSE, todo |-> <<>>, out |-> <<>>, err |-> <<>>,
     ran |-> <<>>, code |-> 0]

Init ==
    /\ modules \in {ModulesWith(b) : b \in Breakages}
    /\ experts \in [Experts -> {New(c, n, WordLimit) : c \in Classes, n \in Names}]
    /\ clients \in [Experts -> {APIClient_init(k, p, m).self :
                                   k \in ApiKeys, p \in Providers, m \in Models}]
    /\ last = [op |-> "__init__", e |-> "", args |-> NoArgs, err |-> "", ret |-> <<>>,
               thinking |-> "", request |-> ""]
    /\ history = [e \in Experts |-> <<>>]
    /\ resp = [e \in Experts |-> NoResponse]
    /\ positioned = [e \in Experts |-> 0]
    /\ wire = <<>>
    /\ cli = CliIdle
    /\ task = TaskIdle

\* a caller sets the position of a Consultant or a Debater
InitialPosition(e) ==
    /\ experts[e].class \in {"Consultant", "Debater"}
    /\ positioned[e] < MaxPositions
    /\ positioned' = [positioned EXCEPT ![e] = @ + 1]
    /\ \E q \in Questions, d \in Answers, o \in Answers :
         LET self == experts[e]
             r == IF self.class = "Consultant"
                  THEN Consultant_initial_position(self, q, d, o)
                  ELSE Debater_initial_position(self, q, d, o)
         IN /\ experts' = [experts EXCEPT ![e] = r.self]
            /\ last' = Call("initial_position", e,
                            [NoArgs EXCEPT !.question = q, !.answer_defending = d,
                                           !.answer_opposing = o], r)
            /\ resp' = [resp EXCEPT ![e] = NoResponse]
    /\ wire' = <<>>
    /\ UNCHANGED <<modules, clients, history, cli, task>>

\* a caller sets the position of an IDebater from the two letter maps
InitialPositionInteractive(e) ==
    /\ experts[e].class = "IDebater"
    /\ positioned[e] < MaxPositions
    /\ positioned' = [positioned EXCEPT ![e] = @ + 1]
    /\ \E q \in InteractiveQuestions, d \in AnswerMaps, o \in AnswerMaps, n \in OpponentNames :
         LET r == IDebater_initial_position(experts[e], q, d, o, n)
         IN /\ experts' = [experts EXCEPT ![e] = r.self]
            /\ last' = Call("initial_position", e,
                            [NoArgs EXCEPT !.question = q, !.answer_defending = d,
                                           !.answer_opposing = o, !.opponent_name = n], r)
            /\ resp' = [resp EXCEPT ![e] = NoResponse]
    /\ wire' = <<>>
    /\ UNCHANGED <<modules, clients, history, cli, task>>

\* a caller asks for the initial response
InitialResponse(e) ==
    /\ LET r == initial_response(experts[e])
       IN /\ experts' = [experts EXCEPT ![e] = r.self]
          /\ last' = Call("initial_response", e, NoArgs, r)
          /\ resp' = IF r.err = "" /\ ~resp[e].seen
                     THEN [resp EXCEPT ![e] = [seen |-> TRUE, text |-> r.ret,
                                               round |-> experts[e].current_round]]
                     ELSE resp
    /\ wire' = <<>>
    /\ UNCHANGED <<modules, clients, history, positioned, cli, task>>

\* a caller asks for the next argument
ConstructArgument(e) ==
    /\ experts[e].current_round < MaxRound
    /\ \E story \in Stories, transcript \in Transcripts :
         LET r == construct_argument(experts[e], story, transcript)
         IN /\ experts' = [experts EXCEPT ![e] = r.self]
            /\ last' = Call("construct_argument", e,
                            [NoArgs EXCEPT !.story = story, !.transcript = transcript], r)
            /\ history' = IF r.err = ""
                          THEN [history EXCEPT ![e] =
                                  Append(@, [thinking |-> r.thinking,
                                             request |-> r.request])]
                          ELSE history
    /\ wire' = <<>>
    /\ UNCHANGED <<modules, clients, resp, positioned, cli, task>>

\* a caller sends the prompt it has just received to the provider
CallApi(e) ==
    /\ last.e = e /\ last.err = ""
    /\ last.op \in {"initial_position", "construct_argument"}
    /\ \E model \in ModelArguments, kwargs \in Kwargs, reply \in Replies :
         LET r == APIClient_call_api(clients[e], last.ret, model, kwargs, reply)
         IN /\ clients' = [clients EXCEPT ![e] = r.self]
            /\ last' = Call("call_api", e, NoArgs,
                            Outcome(r.err, r.ret, experts[e], "", ""))
            /\ wire' = r.sent
    /\ UNCHANGED <<modules, experts, history, resp, positioned, cli, task>>

Next ==
    \E e \in Experts :
       \/ InitialPosition(e)
       \/ InitialPositionInteractive(e)
       \/ InitialResponse(e)
       \/ ConstructArgument(e)

Spec == Init /\ [][Next]_vars

\* sessions that also call the provider, with the prompt resources as the
\* prompt modules define them
InitApi ==
    /\ modules = ModulesWith("none")
    /\ experts \in [Experts -> {New(c, n, WordLimit) : c \in Classes, n \in Names}]
    /\ clients \in [Experts -> {APIClient_init(k, p, m).self :
                                   k \in ApiKeys, p \in Providers, m \in Models}]
    /\ last = [op |-> "__init__", e |-> "", args |-> NoArgs, err |-> "", ret |-> <<>>,
               thinking |-> "", request |-> ""]
    /\ history = [e \in Experts |-> <<>>]
    /\ resp = [e \in Experts |-> NoResponse]
    /\ positioned = [e \in Experts |-> 0]
    /\ wire = <<>>
    /\ cli = CliIdle
    /\ task = TaskIdle

NextApi ==
    \E e \in Experts :
       \/ InitialPosition(e)
       \/ InitialPositionInteractive(e)
       \/ InitialResponse(e)
       \/ ConstructArgument(e)
       \/ CallApi(e)

SpecApi == InitApi /\ [][NextApi]_vars

\* ------------------------------------------- clients used on their own
\* the name a caller binds a new object to, before any object is made
NoClient == [api_key |-> "", provider |-> "", model |-> "", session |-> NoSession]

NoExpert == [class |-> ""]

\* what the callers of tests/test_base.py and of the experts construct and send
ClientClasses == {"APIClient"} \cup Classes
ClientApiKeys == {"test_api_key", "OPENAI_API_KEY"}
ClientProviders == {"openai", "anthropic", "invalid_provider"}
ClientModels == {"", "test_model"}
ClientModelArguments == {"", "gpt-4o-mini"}
ClientKwargs == {[k \in {} |-> 0], [k \in {"max_tokens"} |-> 1000]}
ClientPrompts == {<<"test_prompt">>}

InitClient ==
    /\ modules = ModulesWith("none")
    /\ experts = [e \in Experts |-> NoExpert]
    /\ clients = [e \in Experts |-> NoClient]
    /\ last = [op |-> "__init__", e |-> "", args |-> NoArgs, err |-> "", ret |-> <<>>,
               thinking |-> "", request |-> ""]
    /\ history = [e \in Experts |-> <<>>]
    /\ resp = [e \in Experts |-> NoResponse]
    /\ positioned = [e \in Experts |-> 0]
    /\ wire = <<>>
    /\ cli = CliIdle
    /\ task = TaskIdle

\* client = APIClient(...) or an expert class: APIClient.__init__ runs first,
\* and the name is bound only when the constructor returns
NewClient(e) ==
    /\ \E class \in ClientClasses, k \in ClientApiKeys, p \in ClientProviders,
          m \in ClientModels :
         LET c == APIClient_init(k, p, m)
         IN /\ clients' = [clients EXCEPT ![e] = IF c.err = "" THEN c.self ELSE @]
            /\ experts' = [experts EXCEPT ![e] =
                              IF c.err # "" THEN @
                              ELSE IF class = "APIClient" THEN NoExpert
                              ELSE New(class, <<"Alice">>, WordLimit)]
            /\ last' = [op |-> "new", e |-> e,
                        args |-> [class |-> class, api_key |-> k, provider |-> p,
                                  model |-> m],
                        err |-> c.err, ret |-> <<>>, thinking |-> "", request |-> ""]
            /\ wire' = c.made
    /\ UNCHANGED <<modules, history, resp, positioned, cli, task>>

\* client.call_api(prompt, model, **kwargs) on a bound client
ClientCallApi(e) ==
    /\ clients[e] # NoClient
    /\ \E prompt \in ClientPrompts, model \in ClientModelArguments,
          kwargs \in ClientKwargs, reply \in Replies :
         LET r == APIClient_call_api(clients[e], prompt, model, kwargs, reply)
         IN /\ clients' = [clients EXCEPT ![e] = r.self]
            /\ last' = [op |-> "call_api", e |-> e,
                        args |-> [prompt |-> prompt, model |-> model,
                                  kwargs |-> kwargs, reply |-> reply],
                        err |-> r.err, ret |-> r.ret, thinking |-> "", request |-> ""]
            /\ wire' = r.sent
    /\ UNCHANGED <<modules, experts, history, resp, positioned, cli, task>>

NextClient ==
    \E e \in Experts :
       \/ NewClient(e)
       \/ ClientCallApi(e)

SpecClient == InitClient /\ [][NextClient]_vars


\* --------------------------------------------- two experts side by side
Pair == {"e1", "e2"}

\* the positions the callers of the pair give: a question with its two
\* answers, or with its two letter maps and the opponent's name
PairPositions ==
    {[question |-> <<"Q1">>, answer_defending |-> <<"X">>, answer_opposing |-> <<"Y">>],
     [question |-> <<"Q2">>, answer_defending |-> <<"Y">>, answer_opposing |-> <<"X">>]}

PairInteractivePositions ==
    {[question |-> <<"Q1">>, answer_defending |-> [k \in {"A"} |-> <<"X">>],
      answer_opposing |-> [k \in {"B"} |-> <<"Y">>], opponent_name |-> <<"Bob">>],
     [question |-> <<"Q2">>, answer_defending |-> [k \in {"B"} |-> <<"Y">>],
      answer_opposing |-> [k \in {"A"} |-> <<"X">>], opponent_name |-> <<"Bob">>]}

\* variant: the round is an attribute of the class, shared by every object
Store_RoundOnClass(objects, e, self) ==
    [f \in DOMAIN objects |->
        IF f = e THEN self
        ELSE [objects[f] EXCEPT !.current_round = self.current_round]]

\* the attributes a method assigns are those of the object it was called on
Store(objects, e, self) == [objects EXCEPT ![e] = self]

InitPair ==
    /\ modules = ModulesWith("none")
    /\ experts \in [Pair -> {New(c, n, WordLimit) : c \in Classes, n \in Names}]
    /\ clients \in [Pair -> {APIClient_init(k, p, m).self :
                                k \in ApiKeys, p \in Providers, m \in Models}]
    /\ last = [op |-> "__init__", e |-> "", args |-> NoArgs, err |-> "", ret |-> <<>>,
               thinking |-> "", request |-> ""]
    /\ history = [e \in Pair |-> <<>>]
    /\ resp = [e \in Pair |-> NoResponse]
    /\ positioned = [e \in Pair |-> 0]
    /\ wire = <<>>
    /\ cli = CliIdle
    /\ task = TaskIdle

PairInitialPosition(e) ==
    /\ experts[e].class \in {"Consultant", "Debater"}
    /\ \E a \in PairPositions :
         LET self == experts[e]
             r == IF self.class = "Consultant"
                  THEN Consultant_initial_position(self, a.question, a.answer_defending,
                                                   a.answer_opposing)
                  ELSE Debater_initial_position(self, a.question, a.answer_defending,
                                                a.answer_opposing)
         IN /\ experts' = Store(experts, e, r.self)
            /\ last' = Call("initial_position", e,
                            [NoArgs EXCEPT !.question = a.question,
                                           !.answer_defending = a.answer_defending,
                                           !.answer_opposing = a.answer_opposing], r)
    /\ wire' = <<>>
    /\ UNCHANGED <<modules, clients, history, resp, positioned, cli, task>>

PairInitialPositionInteractive(e) ==
    /\ experts[e].class = "IDebater"
    /\ \E a \in PairInteractivePositions :
         LET r == IDebater_initial_position(experts[e], a.question, a.answer_defending,
                                            a.answer_opposing, a.opponent_name)
         IN /\ experts' = Store(experts, e, r.self)
            /\ last' = Call("initial_position", e,
                            [NoArgs EXCEPT !.question = a.question,
                                           !.answer_defending = a.answer_defending,
                                           !.answer_opposing = a.answer_opposing,
                                           !.opponent_name = a.opponent_name], r)
    /\ wire' = <<>>
    /\ UNCHANGED <<modules, clients, history, resp, positioned, cli, task>>

PairConstructArgument(e) ==
    /\ experts[e].current_round < MaxRound
    /\ \E story \in Stories, transcript \in Transcripts :
         LET r == construct_argument(experts[e], story, transcript)
         IN /\ experts' = Store(experts, e, r.self)
            /\ last' = Call("construct_argument", e,
                            [NoArgs EXCEPT !.story = story, !.transcript = transcript], r)
            /\ history' = IF r.err = ""
                          THEN [history EXCEPT ![e] =
                                  Append(@, [thinking |-> r.thinking,
                                             request |-> r.request])]
                          ELSE history
    /\ wire' = <<>>
    /\ UNCHANGED <<modules, clients, resp, positioned, cli, task>>

NextPair ==
    \E e \in Pair :
       \/ PairInitialPosition(e)
       \/ PairInitialPositionInteractive(e)
       \/ PairConstructArgument(e)

SpecPair == InitPair /\ [][NextPair]_vars


\* ----------------------------------------------------- tasks.py commands
PYTHON_EXECUTABLE == "python"
DOCKER_IMAGE_NAME == "ai-debate-backend"
DOCKERFILE_PATH == "backend/Dockerfile"
TESTS_PATH == "backend/tests"

TASKS ==
    [t \in {"run-app", "run-tests", "build-image", "run-image", "run-image-interactive"} |->
       CASE t = "run-app" -> <<PYTHON_EXECUTABLE, "-m", "backend.app.main">>
         [] t = "run-tests" -> <<PYTHON_EXECUTABLE, "-m", "pytest", TESTS_PATH>>
         [] t = "build-image" ->
               <<"docker", "build", "-t", DOCKER_IMAGE_NAME, "-f", DOCKERFILE_PATH, ".">>
         [] t = "run-image" -> <<"docker", "run", "-p", "5000:5000", DOCKER_IMAGE_NAME>>
         [] t = "run-image-interactive" ->
               <<"docker", "run", "-it", "-p", "5000:5000", DOCKER_IMAGE_NAME>>]

\* the commands of the group and AliasedGroup.aliases
CommandNames == {"run-app", "run-tests", "build-image", "run-image", "all"}

aliases ==
    [a \in {"r", "t", "b", "i", "a"} |->
       CASE a = "r" -> "run-app"
         [] a = "t" -> "run-tests"
         [] a = "b" -> "build-image"
         [] a = "i" -> "run-image"
         [] a = "a" -> "all"]

\* AliasedGroup.get_command: aliases.get(cmd_name, cmd_name)
AliasedGroup_get_command(cmd_name) ==
    IF cmd_name \in DOMAIN aliases THEN aliases[cmd_name] ELSE cmd_name

\* ' '.join(command)
RECURSIVE Join(_)
Join(command) ==
    IF Len(command) <= 1 THEN command
    ELSE <<Head(command), " ">> \o Join(Tail(command))

\* how a started command can end: subprocess.run returns, or raises
\* CalledProcessError with the command's return code, FileNotFoundError, or
\* another exception
SubprocessResults ==
    {[kind |-> "ok", returncode |-> 0],
     [kind |-> "CalledProcessError", returncode |-> 1],
     [kind |-> "CalledProcessError", returncode |-> 2],
     [kind |-> "FileNotFoundError", returncode |-> 0],
     [kind |-> "Exception", returncode |-> 0]}

\* a subprocess.run call: the command and how it ended
Started(command, result) == <<[command |-> command, result |-> result]>>

\* variant: a failing command is reported and the caller goes on
run_command_GoesOn(command, dry_run, verbose, result) ==
    LET said == IF verbose THEN <<<<"Executing: ">> \o Join(command)>> ELSE <<>>
    IN IF dry_run
       THEN [out |-> said \o <<<<"[DRY-RUN] ">> \o Join(command)>>, err |-> <<>>,
             ran |-> <<>>, exits |-> FALSE, code |-> 0]
       ELSE CASE result.kind = "ok" ->
                   [out |-> said, err |-> <<>>, ran |-> Started(command, result),
                    exits |-> FALSE, code |-> 0]
              [] result.kind = "CalledProcessError" ->
                   [out |-> said,
                    err |-> <<<<"Error occurred while executing a command: ">>>>,
                    ran |-> Started(command, result), exits |-> FALSE, code |-> 0]
              [] result.kind = "FileNotFoundError" ->
                   [out |-> said, err |-> <<<<"Command not found: ">>>>,
                    ran |-> Started(command, result), exits |-> FALSE, code |-> 0]
              [] OTHER ->
                   [out |-> said, err |-> <<<<"An unexpected error occurred: ">>>>,
                    ran |-> Started(command, result), exits |-> FALSE, code |-> 0]

\* variant: the dry-run branch prints and goes on to run the command
run_command_DryRunFallsThrough(command, dry_run, verbose, result) ==
    LET said == (IF verbose THEN <<<<"Executing: ">> \o Join(command)>> ELSE <<>>)
                \o (IF dry_run THEN <<<<"[DRY-RUN] ">> \o Join(command)>> ELSE <<>>)
    IN CASE result.kind = "ok" ->
              [out |-> said, err |-> <<>>, ran |-> Started(command, result),
               exits |-> FALSE, code |-> 0]
         [] result.kind = "CalledProcessError" ->
              [out |-> said, err |-> <<<<"Error occurred while executing a command: ">>>>,
               ran |-> Started(command, result), exits |-> TRUE, code |-> result.returncode]
         [] result.kind = "FileNotFoundError" ->
              [out |-> said, err |-> <<<<"Command not found: ">>>>,
               ran |-> Started(command, result), exits |-> TRUE, code |-> 127]
         [] OTHER ->
              [out |-> said, err |-> <<<<"An unexpected error occurred: ">>>>,
               ran |-> Started(command, result), exits |-> TRUE, code |-> 1]

\* run_command: what it prints, the subprocess.run calls it makes, and the
\* sys.exit it ends with, if any
run_command(command, dry_run, verbose, result) ==
    LET said == IF verbose THEN <<<<"Executing: ">> \o Join(command)>> ELSE <<>>
    IN IF dry_run
       THEN [out |-> said \o <<<<"[DRY-RUN] ">> \o Join(command)>>, err |-> <<>>,
             ran |-> <<>>, exits |-> FALSE, code |-> 0]
       ELSE CASE result.kind = "ok" ->
                   [out |-> said, err |-> <<>>, ran |-> Started(command, result),
                    exits |-> FALSE, code |-> 0]
              [] result.kind = "CalledProcessError" ->
                   [out |-> said,
                    err |-> <<<<"Error occurred while executing a command: ">>>>,
                    ran |-> Started(command, result), exits |-> TRUE, code |-> result.returncode]
              [] result.kind = "FileNotFoundError" ->
                   [out |-> said, err |-> <<<<"Command not found: ">>>>,
                    ran |-> Started(command, result), exits |-> TRUE, code |-> 127]
              [] OTHER ->
                   [out |-> said, err |-> <<<<"An unexpected error occurred: ">>>>,
                    ran |-> Started(command, result), exits |-> TRUE, code |-> 1]

\* the tasks a command runs, in order: run_app, run_tests, build_image,
\* run_image (with -I the interactive one) and all_tasks
Plan(name, interactive) ==
    CASE name = "all" -> <<"run-tests", "build-image", "run-image">>
      [] name = "run-image" ->
            IF interactive THEN <<"run-image-interactive">> ELSE <<"run-image">>
      [] OTHER -> <<name>>

InitTasks ==
    /\ modules = ModulesWith("none")
    /\ experts = [e \in Experts |-> NoExpert]
    /\ clients = [e \in Experts |-> NoClient]
    /\ last = [op |-> "__init__", e |-> "", args |-> NoArgs, err |-> "", ret |-> <<>>,
               thinking |-> "", request |-> ""]
    /\ history = [e \in Experts |-> <<>>]
    /\ resp = [e \in Experts |-> NoResponse]
    /\ positioned = [e \in Experts |-> 0]
    /\ wire = <<>>
    /\ cli = CliIdle
    /\ task = [TaskIdle EXCEPT !.pc = "shell"]

\* python tasks.py <command or alias> [--dry-run] [--verbose] [-I]
TaskInvoke ==
    /\ task.pc = "shell"
    /\ \E cmd_name \in CommandNames \cup DOMAIN aliases,
          dry_run \in BOOLEAN, verbose \in BOOLEAN, interactive \in BOOLEAN :
         LET name == AliasedGroup_get_command(cmd_name)
         IN /\ interactive => name = "run-image"
            /\ task' = [task EXCEPT !.pc = "running", !.name = name,
                                    !.dry_run = dry_run, !.verbose = verbose,
                                    !.interactive = interactive,
                                    !.todo = Plan(name, interactive)]
    /\ UNCHANGED <<modules, experts, clients, last, history, resp, positioned, wire, cli>>

\* the command's next run_command call; a sys.exit ends the process, after
\* the message of all_tasks when the command is "all", and the process ends
\* with code 0 when the last call returns
TaskRunCommand ==
    /\ task.pc = "running"
    /\ task.todo # <<>>
    /\ \E result \in SubprocessResults :
         LET r == run_command(TASKS[Head(task.todo)], task.dry_run, task.verbose, result)
             over == r.exits \/ Len(task.todo) = 1
         IN task' = [task EXCEPT
                       !.pc = IF over THEN "exited" ELSE "running",
                       !.todo = IF r.exits THEN @ ELSE Tail(@),
                       !.out = @ \o r.out,
                       !.err = @ \o r.err
                                 \o (IF r.exits /\ task.name = "all"
                                     THEN <<<<"Stopping execution due to a failure.">>>>
                                     ELSE <<>>),
                       !.ran = @ \o r.ran,
                       !.code = IF r.exits THEN r.code ELSE 0]
    /\ UNCHANGED <<modules, experts, clients, last, history, resp, positioned, wire, cli>>

NextTasks ==
    \/ TaskInvoke
    \/ TaskRunCommand

SpecTasks == InitTasks /\ [][NextTasks]_vars


\* ------------------------------------------- the command line of run_expert
\* the consultant that setup() constructs, and the rounds main() runs
CliExpert == "e1"
CliName == <<"Consultant">>
CliApiKey == "OPENAI_API_KEY"
CliModel == "gpt-4o-mini"
CliRounds == 3
\* the content of a message the provider returns
Contents == {<<"yes">>, <<"no">>}

\* variant: the reply is put in front of the transcript
add_to_transcript_Prepends(transcript, response) == response \o <<"\n\n">> \o transcript

\* add_to_transcript
add_to_transcript(transcript, response) == transcript \o response \o <<"\n\n">>

\* one entry of the session's log: a call the session made, or a request that
\* reached the provider
Event(op, text, err) == [op |-> op, text |-> text, err |-> err]

\* main() after setup(): cli.pc is the statement main is at
InitCli ==
    /\ modules \in {ModulesWith(b) : b \in Breakages}
    /\ experts = [e \in Experts |-> Consultant_init(CliName, WordLimit)]
    /\ clients = [e \in Experts |-> APIClient_init(CliApiKey, "openai", CliModel).self]
    /\ last = [op |-> "__init__", e |-> "", args |-> NoArgs, err |-> "", ret |-> <<>>,
               thinking |-> "", request |-> ""]
    /\ history = [e \in Experts |-> <<>>]
    /\ resp = [e \in Experts |-> NoResponse]
    /\ positioned = [e \in Experts |-> 0]
    /\ wire = <<>>
    /\ cli = [CliIdle EXCEPT !.pc = "position"]
    /\ task = TaskIdle

\* set_initial_position, first statement: consultant.initial_position
CliInitialPosition ==
    /\ cli.pc = "position"
    /\ \E q \in Questions, d \in Answers, o \in Answers :
         LET e == CliExpert
             r == Consultant_initial_position(experts[e], q, d, o)
         IN /\ experts' = [experts EXCEPT ![e] = r.self]
            /\ last' = Call("initial_position", e,
                            [NoArgs EXCEPT !.question = q, !.answer_defending = d,
                                           !.answer_opposing = o], r)
            /\ positioned' = [positioned EXCEPT ![e] = @ + 1]
            /\ resp' = [resp EXCEPT ![e] = NoResponse]
            /\ cli' = [cli EXCEPT
                         !.pc = IF r.err = "" THEN "send_position" ELSE "raised",
                         !.prompt = r.ret,
                         !.log = Append(@, Event("initial_position", r.ret, r.err))]
    /\ wire' = <<>>
    /\ UNCHANGED <<modules, clients, history, task>>

\* construct_argument of run_expert, first statement:
\* consultant.construct_argument with the transcript so far
CliConstructArgument ==
    /\ cli.pc = "argue"
    /\ cli.round < CliRounds
    /\ \E story \in Stories :
         LET e == CliExpert
             r == construct_argument(experts[e], story, cli.transcript)
         IN /\ experts' = [experts EXCEPT ![e] = r.self]
            /\ last' = Call("construct_argument", e,
                            [NoArgs EXCEPT !.story = story,
                                           !.transcript = cli.transcript], r)
            /\ history' = IF r.err = ""
                          THEN [history EXCEPT ![e] =
                                  Append(@, [thinking |-> r.thinking,
                                             request |-> r.request])]
                          ELSE history
            /\ cli' = [cli EXCEPT
                         !.pc = IF r.err = "" THEN "send_argument" ELSE "raised",
                         !.prompt = r.ret,
                         !.passed = Append(@, cli.transcript),
                         !.log = Append(@, Event("construct_argument", r.ret, r.err))]
    /\ wire' = <<>>
    /\ UNCHANGED <<modules, clients, resp, positioned, task>>

\* the second statement of set_initial_position and of construct_argument,
\* consultant.call_api(prompt, max_tokens=1000), and main's use of the
\* response: "Consultant: " and its content are added to the transcript
CliCallApi ==
    /\ cli.pc \in {"send_position", "send_argument"}
    /\ \E model \in ModelArguments, kwargs \in Kwargs, reply \in Replies,
          content \in Contents :
         LET e == CliExpert
             r == APIClient_call_api(clients[e], cli.prompt, model, kwargs, reply)
             seen == [i \in 1..Len(r.sent) |-> Event("provider", r.sent[i].content, "")]
             response == <<"Consultant: ">> \o content
         IN /\ clients' = [clients EXCEPT ![e] = r.self]
            /\ last' = Call("call_api", e, NoArgs,
                            Outcome(r.err, r.ret, experts[e], "", ""))
            /\ wire' = r.sent
            /\ cli' = IF r.err # ""
                      THEN [cli EXCEPT !.pc = "raised", !.log = @ \o seen]
                      ELSE [cli EXCEPT
                              !.pc = "argue",
                              !.round = IF cli.pc = "send_argument" THEN @ + 1 ELSE @,
                              !.transcript = add_to_transcript(@, response),
                              !.replies = Append(@, content),
                              !.log = @ \o seen]
    /\ UNCHANGED <<modules, experts, history, resp, positioned, task>>

\* print(transcript) after the last round
CliPrint ==
    /\ cli.pc = "argue"
    /\ cli.round = CliRounds
    /\ cli' = [cli EXCEPT !.pc = "done", !.printed = cli.transcript]
    /\ wire' = <<>>
    /\ UNCHANGED <<modules, experts, clients, last, history, resp, positioned, task>>

NextCli ==
    \/ CliInitialPosition
    \/ CliConstructArgument
    \/ CliCallApi
    \/ CliPrint

SpecCli == InitCli /\ [][NextCli]_vars

\* main runs its statements one after the other until it returns or an
\* exception ends it: a statement that can run does run
SpecCliFair == SpecCli /\ WF_vars(NextCli)

\* ---------------------------------------------------------------- claims
\* sub occurs in text as a contiguous run
Occurs(sub, text) ==
    \E i \in 1..(Len(text) - Len(sub) + 1) : SubSeq(text, i, i + Len(sub) - 1) = sub

\* the advice key and the request key the design assigns to a round
PhaseKey(class, round) ==
    IF round = 0 THEN "first_round_thinking"
    ELSE IF class # "Consultant" /\ round = 1 THEN "second_round_thinking"
    ELSE "nth_round_thinking"

RequestKey(round) ==
    IF round = 0 THEN "opening_argument_request" ELSE "nth_argument_request"

\* the last operation was a construct_argument on e that returned
Constructed(e) == last.op = "construct_argument" /\ last.e = e /\ last.err = ""

\* C1: for every variant and every sequence of operations, currentRound is the
\* number of successful constructArgument calls made so far (0 at the start,
\* one more after each success, never less)
C1_RoundCountsSuccessfulCalls ==
    \A e \in Experts : experts[e].current_round = Len(history[e])

\* the round has survived failed calls and a later initial_position
C1_Witness ==
    \E e \in Experts :
       /\ experts[e].class = "Debater"
       /\ experts[e].current_round = 2
       /\ positioned[e] = 2
       /\ last.op = "initial_position"

\* C2: a constructArgument call that returns chose its advice key and its
\* request key from the round held before the call (the k-th success used
\* k-1) and leaves the round at that value plus one
C2_KeysFromPreCallRound ==
    [][\A e \in Experts :
         (last'.op = "construct_argument" /\ last'.e = e /\ last'.err = "")
         => LET k == Len(history'[e])
            IN /\ experts[e].current_round = k - 1
               /\ last'.thinking = PhaseKey(experts[e].class, experts[e].current_round)
               /\ last'.request = RequestKey(experts[e].current_round)
               /\ history'[e][k].thinking = PhaseKey(experts[e].class, k - 1)
               /\ history'[e][k].request = RequestKey(k - 1)
               /\ experts'[e].current_round = experts[e].current_round + 1]_vars

\* the second successful call has returned
C2_Witness ==
    \E e \in Experts : Constructed(e) /\ experts[e].current_round = 2

\* C3: a Debater's successful calls use the advice first, second, nth, nth, ...
\* in that order, one per round, and the prompt returned carries that advice
C3_DebaterPhases ==
    \A e \in Experts :
       experts[e].class = "Debater" =>
          /\ Len(history[e]) = experts[e].current_round
          /\ \A i \in DOMAIN history[e] :
                history[e][i].thinking =
                   (IF i = 1 THEN "first_round_thinking"
                    ELSE IF i = 2 THEN "second_round_thinking"
                    ELSE "nth_round_thinking")
          /\ Constructed(e) =>
                Occurs(debater.thinking_advice[history[e][Len(history[e])].thinking],
                       last.ret)

\* three successive calls of a Debater have returned
C3_Witness ==
    \E e \in Experts :
       /\ experts[e].class = "Debater"
       /\ experts[e].current_round = 3
       /\ Constructed(e)
       /\ [i \in 1..3 |-> history[e][i].thinking] =
             <<"first_round_thinking", "second_round_thinking", "nth_round_thinking">>

\* C4: a Consultant's successful calls use the advice first, then nth in every
\* later round; the second-round advice is never selected
C4_ConsultantPhases ==
    \A e \in Experts :
       experts[e].class = "Consultant" =>
          /\ \A i \in DOMAIN history[e] :
                /\ history[e][i].thinking =
                      (IF i = 1 THEN "first_round_thinking" ELSE "nth_round_thinking")
                /\ history[e][i].thinking # "second_round_thinking"
          /\ last.e = e => last.thinking # "second_round_thinking"
          /\ Constructed(e) =>
                /\ Occurs(experts[e].thinking_advice[
                             IF experts[e].current_round = 1
                             THEN "first_round_thinking" ELSE "nth_round_thinking"],
                          last.ret)
                /\ ~Occurs(experts[e].thinking_advice["second_round_thinking"], last.ret)

\* the consultant's second call has returned
C4_Witness ==
    \E e \in Experts :
       /\ experts[e].class = "Consultant"
       /\ experts[e].current_round = 2
       /\ Constructed(e)

\* C5: in every variant the opening request is rendered exactly in the call
\* made at round 0 and the nth request in every later one, both with the
\* stored question and answer_defending
C5_RequestKey ==
    \A e \in Experts :
       /\ \A i \in DOMAIN history[e] :
             history[e][i].request =
                (IF i = 1 THEN "opening_argument_request" ELSE "nth_argument_request")
       /\ Constructed(e) =>
             LET key == IF experts[e].current_round = 1
                        THEN "opening_argument_request" ELSE "nth_argument_request"
                 other == IF experts[e].current_round = 1
                          THEN "nth_argument_request" ELSE "opening_argument_request"
                 shown(k) == Substitute(modules[experts[e].protocol].new_argument[k],
                                [question |-> experts[e].question.s,
                                 answer_defending |-> experts[e].answer_defending.s])
             IN /\ shown(key).err = ""
                /\ Occurs(shown(key).text, last.ret)
                /\ shown(other).err = "" => ~Occurs(shown(other).text, last.ret)

\* an interactive debater's third call has returned
C5_Witness ==
    \E e \in Experts :
       /\ experts[e].class = "IDebater"
       /\ experts[e].current_round = 3
       /\ Constructed(e)

\* C6: a constructArgument call whose template rendering fails (the request
\* template or the user-request template) raises and leaves the expert as it
\* was: the round is not advanced and currentArgument is not overwritten
C6_RenderFailureLeavesState ==
    [][\A e \in Experts :
         (last'.op = "construct_argument" /\ last'.e = e /\ last'.err = "KeyError")
         => /\ experts'[e] = experts[e]
            /\ last'.ret = <<>>
            /\ history'[e] = history[e]]_vars

\* a render failed in a round after the first, with an argument already stored
C6_Witness ==
    \E e \in Experts :
       /\ last.op = "construct_argument" /\ last.e = e /\ last.err = "KeyError"
       /\ experts[e].current_round = 1
       /\ IsSet(experts[e].current_argument)

\* the error a read of the position raises before initial_position has set it
\* (Python's AttributeError for an attribute that does not exist)
PositionNotSetError == "AttributeError"

\* C7: constructArgument on an expert whose initialPosition was never called
\* raises the position-not-set error, returns no prompt, and currentRound is
\* still 0
C7_ConstructBeforePosition ==
    \A e \in Experts :
       (last.op = "construct_argument" /\ last.e = e /\ positioned[e] = 0)
       => /\ last.err = PositionNotSetError
          /\ last.ret = <<>>
          /\ experts[e].current_round = 0
          /\ ~IsSet(experts[e].current_argument)

\* constructArgument was called on an expert that has no position
C7_Witness ==
    \E e \in Experts :
       /\ last.op = "construct_argument" /\ last.e = e /\ positioned[e] = 0
       /\ last.err = PositionNotSetError

\* C8: initialResponse on an expert whose initialPosition was never called
\* fails with the position-not-set error and the expert is still as constructed
C8_ResponseBeforePosition ==
    \A e \in Experts :
       (last.op = "initial_response" /\ last.e = e /\ positioned[e] = 0)
       => /\ last.err = PositionNotSetError
          /\ last.ret = <<>>
          /\ experts[e] = New(experts[e].class, experts[e].name, experts[e].word_limit)

\* initialResponse was called on an interactive debater that has no position
C8_Witness ==
    \E e \in Experts :
       /\ experts[e].class = "IDebater"
       /\ last.op = "initial_response" /\ last.e = e /\ positioned[e] = 0
       /\ last.err = PositionNotSetError

\* C9: initialResponse changes no field of the expert; when it returns, the
\* text is the assistant-response template filled with the stored question,
\* answer_defending and answer_opposing, and it equals the text of the first
\* initialResponse made since the last initialPosition, whatever
\* constructArgument calls came between
C9_ResponseIsPureRead ==
    [][\A e \in Experts :
         (last'.op = "initial_response" /\ last'.e = e)
         => /\ experts'[e] = experts[e]
            /\ last'.err = "" =>
                 /\ last'.ret =
                      Fill(modules[experts[e].protocol].assistant_response,
                           [question |-> experts[e].question.s,
                            answer_defending |-> experts[e].answer_defending.s,
                            answer_opposing |-> experts[e].answer_opposing.s])
                 /\ resp[e].seen => last'.ret = resp[e].text]_vars

\* a second initialResponse returned, two rounds after the first one
C9_Witness ==
    \E e \in Experts :
       /\ last.op = "initial_response" /\ last.e = e /\ last.err = ""
       /\ resp[e].seen
       /\ experts[e].current_round >= resp[e].round + 2

\* the two maps name one letter each, different letters, with non-empty texts
WellFormed(d, o) ==
    \E l \in Letters :
       /\ DOMAIN d = {l} /\ DOMAIN o = Letters \ {l}
       /\ \A k \in DOMAIN d : d[k] # <<>>
       /\ \A k \in DOMAIN o : o[k] # <<>>

\* C10: for well-formed maps the interactive initialPosition returns, stores
\* the text given for A as answer_a and the text given for B as answer_b, the
\* defending map's letter as the defending letter and the other letter as the
\* opposing letter, and returns the question template filled with them
C10_LetterResolution ==
    \A e \in Experts :
       (/\ experts[e].class = "IDebater"
        /\ last.op = "initial_position" /\ last.e = e
        /\ WellFormed(last.args.answer_defending, last.args.answer_opposing))
       => LET d == last.args.answer_defending
              o == last.args.answer_opposing
              l == CHOOSE k \in Letters : k \in DOMAIN d
              m == CHOOSE k \in Letters : k \in DOMAIN o
              both == [k \in Letters |-> IF k = l THEN d[k] ELSE o[k]]
              self == experts[e]
          IN /\ last.err = ""
             /\ self.answer_a = Str(both["A"])
             /\ self.answer_b = Str(both["B"])
             /\ self.answer_defending_letter = Str(<<l>>)
             /\ self.answer_opposing_letter = Str(<<m>>)
             /\ l # m
             /\ self.answer_defending = Str(d[l])
             /\ self.answer_opposing = Str(o[m])
             /\ last.ret = Fill(modules[self.protocol].user_question,
                                [question |-> last.args.question,
                                 answer_a |-> both["A"],
                                 answer_b |-> both["B"],
                                 answer_defending_letter |-> <<l>>,
                                 answer_opposing_letter |-> <<m>>,
                                 opponent_name |-> last.args.opponent_name])

\* initialPosition returned for a debater that defends letter B
C10_Witness ==
    \E e \in Experts :
       /\ experts[e].class = "IDebater"
       /\ last.op = "initial_position" /\ last.e = e /\ last.err = ""
       /\ WellFormed(last.args.answer_defending, last.args.answer_opposing)
       /\ DOMAIN last.args.answer_defending = {"B"}
       /\ experts[e].answer_defending_letter = Str(<<"B">>)
       /\ experts[e].answer_a # experts[e].answer_b


\* the canonical text of a letter held by an interactive debater
Canonical(self, letter) == IF letter = Str(<<"A">>) THEN self.answer_a ELSE self.answer_b

\* C11: after an interactive initialPosition that returns, for maps naming one
\* letter each, the defending and the opposing letter are different and are
\* together A and B, and the stored role texts are the canonical texts of their
\* letters; maps that name the same letter make the call raise
C11_LettersDisjointOrError ==
    \A e \in Experts :
       (/\ experts[e].class = "IDebater"
        /\ last.op = "initial_position" /\ last.e = e)
       => LET self == experts[e]
          IN /\ last.err = "" =>
                  /\ self.answer_defending_letter # self.answer_opposing_letter
                  /\ {self.answer_defending_letter, self.answer_opposing_letter}
                        = {Str(<<l>>) : l \in Letters}
                  /\ self.answer_defending = Canonical(self, self.answer_defending_letter)
                  /\ self.answer_opposing = Canonical(self, self.answer_opposing_letter)
             /\ DOMAIN last.args.answer_defending = DOMAIN last.args.answer_opposing
                  => last.err # ""


\* C12: when both maps give a letter different non-empty texts, the canonical
\* text of the letter is the defending map's; the opposing map's text is the
\* canonical one only for a letter the defending map gives no non-empty text
C12_DefendingTextWins ==
    \A e \in Experts :
       (/\ experts[e].class = "IDebater"
        /\ last.op = "initial_position" /\ last.e = e)
       => \A l \in Letters :
             LET d == last.args.answer_defending
                 o == last.args.answer_opposing
                 defended == l \in DOMAIN d /\ d[l] # <<>>
                 canon == Canonical(experts[e], Str(<<l>>))
             IN /\ defended => canon = Str(d[l])
                /\ ~defended => canon = (IF l \in DOMAIN o THEN Str(o[l]) ELSE None)
                /\ (l \in DOMAIN o /\ canon = Str(o[l]) /\ defended) => o[l] = d[l]

\* both maps gave letter A a text, X to defend and Y to oppose, and X was kept
C12_Witness ==
    \E e \in Experts :
       /\ experts[e].class = "IDebater"
       /\ last.op = "initial_position" /\ last.e = e
       /\ last.args.answer_defending = [l \in {"A"} |-> <<"X">>]
       /\ last.args.answer_opposing = [l \in {"A"} |-> <<"Y">>]
       /\ experts[e].answer_a = Str(<<"X">>)


\* C13: an interactive initialPosition that raises leaves every field of the
\* expert as it was before the call: question, opponent name, answer_a,
\* answer_b, both letters and both role texts
C13_FailedPositionLeavesState ==
    [][\A e \in Experts :
         (/\ experts[e].class = "IDebater"
          /\ last'.op = "initial_position" /\ last'.e = e /\ last'.err # "")
         => /\ experts'[e].question = experts[e].question
            /\ experts'[e].opponent_name = experts[e].opponent_name
            /\ experts'[e].answer_a = experts[e].answer_a
            /\ experts'[e].answer_b = experts[e].answer_b
            /\ experts'[e].answer_defending_letter = experts[e].answer_defending_letter
            /\ experts'[e].answer_opposing_letter = experts[e].answer_opposing_letter
            /\ experts'[e].answer_defending = experts[e].answer_defending
            /\ experts'[e].answer_opposing = experts[e].answer_opposing]_vars


\* C14: initialPosition never changes currentRound, in any variant and at any
\* point: called after k successful constructArgument calls it leaves the
\* round at k, and the constructArgument that follows it chooses the advice
\* key and the request key of round k, not of round 0
C14_PositionKeepsRound ==
    [][\A e \in Experts :
         /\ (last'.op = "initial_position" /\ last'.e = e)
            => /\ experts'[e].current_round = experts[e].current_round
               /\ experts'[e].current_round = Len(history'[e])
         /\ (/\ last.op = "initial_position" /\ last.e = e
             /\ last'.op = "construct_argument" /\ last'.e = e /\ last'.err = "")
            => /\ last'.thinking = PhaseKey(experts[e].class, Len(history[e]))
               /\ last'.request = RequestKey(Len(history[e]))]_vars

\* a consultant was given a second position after two arguments
C14_Witness ==
    \E e \in Experts :
       /\ experts[e].class = "Consultant"
       /\ last.op = "initial_position" /\ last.e = e /\ last.err = ""
       /\ positioned[e] = 2
       /\ Len(history[e]) = 2
       /\ experts[e].current_round = 2


\* the position a Consultant or a Debater holds
Position(self) ==
    [question |-> self.question, answer_defending |-> self.answer_defending,
     answer_opposing |-> self.answer_opposing]

\* C15: every initialPosition call of a Consultant or a Debater, the second
\* like the first, raises no error and replaces the stored question,
\* answer_defending and answer_opposing with its arguments; no other operation
\* changes them, and every initialResponse and constructArgument that returns
\* afterwards is rendered from the stored, most recent position
C15_LatestPositionWins ==
    [][\A e \in Experts :
         experts[e].class \in {"Consultant", "Debater"} =>
            /\ (last'.op = "initial_position" /\ last'.e = e)
               => /\ last'.err = ""
                  /\ Position(experts'[e]) =
                        [question |-> Str(last'.args.question),
                         answer_defending |-> Str(last'.args.answer_defending),
                         answer_opposing |-> Str(last'.args.answer_opposing)]
                  /\ last'.ret = Fill(modules[experts[e].protocol].user_question,
                                      [question |-> last'.args.question,
                                       answer_defending |-> last'.args.answer_defending,
                                       answer_opposing |-> last'.args.answer_opposing])
            /\ ~(last'.op = "initial_position" /\ last'.e = e)
               => Position(experts'[e]) = Position(experts[e])
            /\ (last'.op = "initial_response" /\ last'.e = e /\ last'.err = "")
               => last'.ret = Fill(modules[experts[e].protocol].assistant_response,
                                   [f \in {"question", "answer_defending", "answer_opposing"}
                                      |-> Position(experts[e])[f].s])
            /\ (last'.op = "construct_argument" /\ last'.e = e /\ last'.err = "")
               => Occurs(Fill(modules[experts[e].protocol].new_argument[last'.request],
                              [question |-> experts[e].question.s,
                               answer_defending |-> experts[e].answer_defending.s]),
                         last'.ret)]_vars

\* a debater argued about Q1, was then given a position on Q2, and its initial
\* response speaks of Q2 only
C15_Witness ==
    \E e \in Experts :
       /\ experts[e].class = "Debater"
       /\ positioned[e] = 2
       /\ last.op = "initial_response" /\ last.e = e /\ last.err = ""
       /\ experts[e].question = Str(<<"Q2">>)
       /\ IsSet(experts[e].current_argument)
       /\ Occurs(<<"Q1">>, experts[e].current_argument.s)
       /\ Occurs(<<"Q2">>, last.ret)
       /\ ~Occurs(<<"Q1">>, last.ret)


\* an expert of another class at the same point of a session: same name and
\* word limit, same round, same position, same last argument
Twin(class, self) ==
    [New(class, self.name, self.word_limit) EXCEPT
        !.current_round = self.current_round,
        !.question = self.question,
        !.answer_defending = self.answer_defending,
        !.answer_opposing = self.answer_opposing,
        !.current_argument = self.current_argument]

\* C16: an interactive debater and a debater at the same round, called with
\* the same story and transcript, both fail or both return; when they return
\* they chose the same advice key (first, second, nth by round) and the same
\* request key, each prompt carries the defended answer's text in the request
\* of its own resources, and both rounds are one higher
C16_InteractiveFollowsDebater ==
    \A e \in Experts :
       experts[e].class = "IDebater" =>
          \A story \in Stories, transcript \in Transcripts :
             LET self == experts[e]
                 i == construct_argument(self, story, transcript)
                 d == construct_argument(Twin("Debater", self), story, transcript)
                 shown(x) == Fill(modules[x.self.protocol].new_argument[x.request],
                                  [question |-> self.question.s,
                                   answer_defending |-> self.answer_defending.s])
             IN /\ i.err = d.err
                /\ i.thinking = d.thinking
                /\ i.request = d.request
                /\ i.self.current_round = d.self.current_round
                /\ i.err = "" =>
                     /\ i.thinking = (IF self.current_round = 0 THEN "first_round_thinking"
                                      ELSE IF self.current_round = 1
                                           THEN "second_round_thinking"
                                           ELSE "nth_round_thinking")
                     /\ i.self.current_round = self.current_round + 1
                     /\ Occurs(self.answer_defending.s, shown(i))
                     /\ Occurs(shown(i), i.ret)
                     /\ Occurs(shown(d), d.ret)
                     /\ i.self.protocol = "interactive_debater"
                     /\ d.self.protocol = "debater"

\* an interactive debater that defends a non-empty answer stands at round 1,
\* where the debater's second-round advice is due, and its call would return
C16_Witness ==
    \E e \in Experts :
       /\ experts[e].class = "IDebater"
       /\ experts[e].current_round = 1
       /\ Constructed(e)
       /\ Truthy(experts[e].answer_defending)
       /\ \E story \in Stories, transcript \in Transcripts :
             /\ construct_argument(experts[e], story, transcript).err = ""
             /\ construct_argument(experts[e], story, transcript).thinking
                   = "second_round_thinking"


\* C17: a Consultant and a Debater at the same round with the same position,
\* called with the same story and transcript, both fail or both return, choose
\* the same request key and reach the same round; they choose the same advice
\* key at every round but 1, where the consultant takes the nth-round advice
\* and the debater the second-round advice
C17_ConsultantDiffersAtRoundOne ==
    \A e \in Experts :
       experts[e].class \in {"Consultant", "Debater"} =>
          \A story \in Stories, transcript \in Transcripts :
             LET self == experts[e]
                 c == Consultant_construct_argument(Twin("Consultant", self),
                                                    story, transcript)
                 d == Debater_construct_argument(Twin("Debater", self),
                                                 story, transcript)
             IN /\ c.err = d.err
                /\ c.request = d.request
                /\ c.self.current_round = d.self.current_round
                /\ Position(c.self) = Position(d.self)
                /\ c.err = "" =>
                     /\ (c.thinking # d.thinking) <=> (self.current_round = 1)
                     /\ self.current_round = 1 =>
                           /\ c.thinking = "nth_round_thinking"
                           /\ d.thinking = "second_round_thinking"

\* a debater has made its first argument: at round 1 the two variants would
\* both return, with different advice
C17_Witness ==
    \E e \in Experts :
       /\ experts[e].class = "Debater"
       /\ Constructed(e)
       /\ experts[e].current_round = 1
       /\ \E story \in Stories, transcript \in Transcripts :
             /\ Consultant_construct_argument(Twin("Consultant", experts[e]),
                                              story, transcript).err = ""
             /\ Debater_construct_argument(Twin("Debater", experts[e]),
                                           story, transcript).thinking
                   = "second_round_thinking"


\* C18: a constructArgument that returns leaves current_argument equal to the
\* prompt it returned; no other step (initialPosition, initialResponse, a
\* constructArgument that raises) changes current_argument; and what
\* constructArgument chooses and returns does not depend on current_argument
C18_CurrentArgumentIsLastPrompt ==
    /\ [][\A e \in Experts :
            LET returned == last'.op = "construct_argument" /\ last'.e = e
                            /\ last'.err = ""
            IN /\ returned => experts'[e].current_argument = Str(last'.ret)
               /\ ~returned =>
                     experts'[e].current_argument = experts[e].current_argument]_vars
    /\ [](\A e \in Experts, story \in Stories, transcript \in Transcripts :
            \A other \in {Unset, Str(<<"another argument">>)} :
               LET a == construct_argument(experts[e], story, transcript)
                   b == construct_argument(
                           [experts[e] EXCEPT !.current_argument = other],
                           story, transcript)
               IN /\ a.err = b.err /\ a.ret = b.ret
                  /\ a.thinking = b.thinking /\ a.request = b.request
                  /\ a.self.current_round = b.self.current_round)

\* the argument of the second round has replaced that of the first and has
\* then survived an initialResponse
C18_Witness ==
    \E e \in Experts :
       /\ last.op = "initial_response" /\ last.e = e /\ last.err = ""
       /\ experts[e].current_round = 2
       /\ IsSet(experts[e].current_argument)
       /\ Occurs(experts[e].thinking_advice[PhaseKey(experts[e].class, 1)],
                 experts[e].current_argument.s)
       /\ ~Occurs(experts[e].thinking_advice["first_round_thinking"],
                  experts[e].current_argument.s)


\* what construction binds an expert to
Binding(self) ==
    [class |-> self.class, protocol |-> self.protocol,
     thinking_advice |-> self.thinking_advice, name |-> self.name,
     word_limit |-> self.word_limit, system |-> self.system]

\* C19: no operation on a constructed expert (initialPosition,
\* initialResponse, constructArgument, call_api, returning or raising)
\* changes the resources it is bound to, its thinking advice, its name, its
\* word limit or its cached system prompt
C19_BindingIsFrozen ==
    [][\A e \in Experts : Binding(experts'[e]) = Binding(experts[e])]_vars

\* an interactive debater has been positioned, has argued, and its last
\* prompt has been sent to the provider: it is bound as constructed
C19_Witness ==
    \E e \in Experts :
       /\ experts[e].class = "IDebater"
       /\ clients[e].session.class = "OpenAI"
       /\ last.op = "call_api" /\ last.e = e /\ last.err = ""
       /\ positioned[e] >= 1
       /\ experts[e].current_round >= 2
       /\ Binding(experts[e]) =
             Binding(New("IDebater", experts[e].name, experts[e].word_limit))
       /\ experts[e].protocol = "interactive_debater"


\* the resources of a variant
OwnBundle(class) ==
    CASE class = "Consultant" -> "consultant"
      [] class = "Debater" -> "debater"
      [] class = "IDebater" -> "interactive_debater"

\* the system template of a bundle filled with an expert's name and word limit
SystemOf(bundle, self) ==
    Fill(modules[bundle].system,
         [name |-> self.name, word_limit |-> Digits(self.word_limit)])

\* C20 (as stated): for each of the three variants, construction renders the
\* system prompt exactly once, from the variant's own resources with the
\* expert's name and word limit, and binds the expert to no other resources
\* at any moment of construction
C20_RendersOnceFromOwnBundle ==
    \A e \in Experts :
       LET self == experts[e]
           steps == init_steps(self.class, self.name, self.word_limit)
       IN /\ Len(steps) = 1
          /\ \A i \in DOMAIN steps :
                /\ steps[i].protocol = OwnBundle(self.class)
                /\ steps[i].system = SystemOf(OwnBundle(self.class), self)

\* C20 (amended): constructing a Consultant or a Debater binds its own
\* resources and renders the system prompt once from them; constructing an
\* IDebater first binds the debater resources and renders the debater system
\* prompt, then binds the interactive resources and renders the system prompt
\* again from them. In every variant the constructed expert is bound to its
\* own resources and holds their system template filled with its name and
\* word limit
C20_InteractiveRendersTwice ==
    \A e \in Experts :
       LET self == experts[e]
           steps == init_steps(self.class, self.name, self.word_limit)
       IN /\ self.class \in {"Consultant", "Debater"} =>
                /\ Len(steps) = 1
                /\ steps[1].protocol = OwnBundle(self.class)
          /\ self.class = "IDebater" =>
                /\ Len(steps) = 2
                /\ steps[1].protocol = "debater"
                /\ steps[1].system = SystemOf("debater", self)
                /\ steps[2].protocol = "interactive_debater"
          /\ steps[Len(steps)] = [protocol |-> self.protocol, system |-> self.system]
          /\ self.protocol = OwnBundle(self.class)
          /\ self.system = SystemOf(OwnBundle(self.class), self)
          /\ self.thinking_advice = modules[OwnBundle(self.class)].thinking_advice

\* an interactive debater has just been constructed: it went through the
\* debater's system prompt before it got its own
C20_Witness ==
    \E e \in Experts :
       /\ experts[e].class = "IDebater"
       /\ last.op = "__init__"
       /\ LET steps == init_steps("IDebater", experts[e].name, experts[e].word_limit)
          IN /\ Len(steps) = 2
             /\ steps[1].system # experts[e].system
             /\ steps[2].system = experts[e].system


\* the transcript made of the first k replies, each after "Consultant: " and
\* followed by a blank line
RECURSIVE Joined(_, _)
Joined(replies, k) ==
    IF k = 0 THEN <<>>
    ELSE Joined(replies, k - 1) \o <<"Consultant: ">> \o replies[k] \o <<"\n\n">>

IsPrefix(a, b) == Len(a) <= Len(b) /\ SubSeq(b, 1, Len(a)) = a

\* C21: the command-line session calls initialPosition once, as its first
\* call; every prompt a call returned is sent to the provider exactly once,
\* right after it was made, before the next call; the k-th constructArgument
\* is passed the initial reply and the k-1 earlier replies, in order, each
\* followed by a blank line; the transcript only grows by appending
C21_CliSession ==
    /\ [](LET log == cli.log
              n == Len(log)
          IN /\ \A i \in 1..n :
                   /\ log[i].op = "initial_position" => i = 1
                   /\ log[i].op = "construct_argument" =>
                         log[1].op = "initial_position" /\ log[1].err = ""
                   /\ (log[i].op # "provider" /\ log[i].err = "" /\ i < n) =>
                         /\ log[i + 1] = Event("provider", log[i].text, "")
                         /\ i + 2 <= n => log[i + 2].op # "provider"
                   /\ log[i].op = "provider" =>
                         i > 1 /\ log[i - 1].op # "provider" /\ log[i - 1].err = ""
             /\ cli.pc \in {"argue", "done"} => n > 0 /\ log[n].op = "provider"
             /\ Len(cli.passed) = Len(SelectSeq(log, LAMBDA x : x.op = "construct_argument"))
             /\ \A k \in 1..Len(cli.passed) :
                   /\ k <= Len(cli.replies)
                   /\ cli.passed[k] = Joined(cli.replies, k)
             /\ cli.transcript = Joined(cli.replies, Len(cli.replies))
             /\ cli.pc = "done" =>
                   Len(SelectSeq(log, LAMBDA x : x.op = "initial_position")) = 1)
    /\ [][IsPrefix(cli.transcript, cli'.transcript)]_vars

\* the session has printed its transcript after three rounds whose replies
\* were not all the same
C21_Witness ==
    /\ cli.pc = "done"
    /\ Len(cli.passed) = 3
    /\ cli.replies = <<<<"yes">>, <<"no">>, <<"no">>, <<"yes">>>>
    /\ cli.passed[3] = <<"Consultant: ", "yes", "\n\n", "Consultant: ", "no", "\n\n",
                         "Consultant: ", "no", "\n\n">>


\* C22: when the provider fails, call_api raises the provider's error after
\* one request: it does not send the request again, returns nothing in place
\* of the error, and leaves the expert as it was (the round stays where
\* constructArgument left it)
C22_FailureIsRaisedOnce ==
    /\ [](\A e \in Experts :
            /\ \A model \in ModelArguments, kwargs \in Kwargs :
                  LET r == APIClient_call_api(clients[e], last.ret, model, kwargs, "error")
                  IN /\ r.err = "APIError"
                     /\ r.ret = <<>>
                     /\ Len(r.sent) = 1
                     /\ r.self = clients[e]
            /\ (last.op = "call_api" /\ last.e = e /\ last.err # "") =>
                  /\ last.err = "APIError"
                  /\ last.ret = <<>>
                  /\ Len(wire) = 1)
    /\ [][\A e \in Experts :
            (last'.op = "call_api" /\ last'.e = e) =>
               /\ experts'[e] = experts[e]
               /\ clients'[e] = clients[e]
               /\ history'[e] = history[e]
               /\ last.op = "construct_argument" =>
                     /\ experts'[e].current_round = Len(history[e])
                     /\ wire'[1].content = experts[e].current_argument.s]_vars

\* the provider failed on the prompt of a debater's second argument
C22_Witness ==
    \E e \in Experts :
       /\ experts[e].class = "Debater"
       /\ last.op = "call_api" /\ last.e = e /\ last.err = "APIError"
       /\ experts[e].current_round = 2
       /\ Len(wire) = 1
       /\ wire[1].content = experts[e].current_argument.s


\* the provider client each supported provider names
SessionClass(provider) ==
    IF provider = "openai" THEN "OpenAI"
    ELSE IF provider = "anthropic" THEN "Anthropic"
    ELSE ""

\* the method of the provider client each supported provider is served by
ProviderMethod(provider) ==
    IF provider = "openai" THEN "chat.completions.create"
    ELSE IF provider = "anthropic" THEN "messages.create"
    ELSE ""

\* C23: constructing a client or an expert with a provider other than
\* "openai" or "anthropic" raises ValueError, makes no provider client and
\* binds no object; with a valid provider the session is the client of that
\* provider, made once with the given API key
C23_ProviderDecidesSession ==
    /\ [](\A e \in Experts :
            /\ clients[e] # NoClient =>
                  /\ clients[e].provider \in {"openai", "anthropic"}
                  /\ clients[e].session =
                        [class |-> SessionClass(clients[e].provider),
                         api_key |-> clients[e].api_key]
            /\ (last.op = "new" /\ last.e = e) =>
                  IF last.args.provider \in {"openai", "anthropic"}
                  THEN /\ last.err = ""
                       /\ clients[e].provider = last.args.provider
                       /\ clients[e].api_key = last.args.api_key
                       /\ clients[e].model = last.args.model
                       /\ wire = <<[class |-> SessionClass(last.args.provider),
                                    api_key |-> last.args.api_key]>>
                       /\ clients[e].session = wire[1]
                  ELSE /\ last.err = "ValueError"
                       /\ wire = <<>>)
    /\ [][\A e \in Experts :
            (last'.op = "new" /\ last'.e = e /\ last'.err # "") =>
               /\ clients'[e] = clients[e]
               /\ experts'[e] = experts[e]]_vars

\* a debater was constructed for "anthropic" with the key of the environment
C23_Witness ==
    \E e \in Experts :
       /\ last.op = "new" /\ last.e = e /\ last.err = ""
       /\ last.args.class = "Debater"
       /\ experts[e].class = "Debater"
       /\ clients[e].provider = "anthropic"
       /\ wire = <<[class |-> "Anthropic", api_key |-> "OPENAI_API_KEY"]>>

\* C24: call_api on a constructed client sends one request, to the method of
\* the client's own provider, and returns what that method returns; the model
\* of the request is the model of the call when it is not empty and the
\* client's default model otherwise
C24_OneCallToOwnProvider ==
    \A e \in Experts :
       (last.op = "call_api" /\ last.e = e /\ "reply" \in DOMAIN last.args) =>
          /\ Len(wire) = 1
          /\ wire[1].api = ProviderMethod(clients[e].provider)
          /\ wire[1].content = last.args.prompt
          /\ wire[1].model = IF last.args.model # "" THEN last.args.model
                             ELSE clients[e].model
          /\ last.args.reply = "response" =>
                /\ last.err = ""
                /\ last.ret = IF clients[e].provider = "openai"
                              THEN <<"response.choices[0].message">>
                              ELSE <<"response">>

\* an anthropic client with a default model was called with another model
C24_Witness ==
    \E e \in Experts :
       /\ last.op = "call_api" /\ last.e = e /\ last.err = ""
       /\ clients[e].provider = "anthropic"
       /\ clients[e].model = "test_model"
       /\ last.args.model = "gpt-4o-mini"
       /\ Len(wire) = 1
       /\ wire[1].api = "messages.create"
       /\ wire[1].model = "gpt-4o-mini"
       /\ last.ret = <<"response">>

\* C25 as stated: a call made without max_tokens asks for 1000 tokens
C25_DefaultLimitIs1000 ==
    \A e \in Experts :
       (last.op = "call_api" /\ last.e = e /\ "kwargs" \in DOMAIN last.args
          /\ "max_tokens" \notin DOMAIN last.args.kwargs /\ wire # <<>>) =>
          wire[1].max_tokens = 1000

\* C25: a call made without max_tokens asks for 150 tokens; a request asks
\* for 1000 tokens only when the caller passes max_tokens = 1000
C25_DefaultLimitIs150 ==
    \A e \in Experts :
       (last.op = "call_api" /\ last.e = e /\ "kwargs" \in DOMAIN last.args
          /\ wire # <<>>) =>
          wire[1].max_tokens = IF "max_tokens" \in DOMAIN last.args.kwargs
                               THEN last.args.kwargs["max_tokens"]
                               ELSE 150

\* a request went out for a call that named no max_tokens
C25_Witness ==
    \E e \in Experts :
       /\ last.op = "call_api" /\ last.e = e /\ last.err = ""
       /\ "kwargs" \in DOMAIN last.args
       /\ "max_tokens" \notin DOMAIN last.args.kwargs
       /\ Len(wire) = 1
       /\ wire[1].max_tokens = 150


\* everything an initialPosition stores in an expert
StoredPosition(self) ==
    [question |-> self.question, answer_defending |-> self.answer_defending,
     answer_opposing |-> self.answer_opposing, opponent_name |-> self.opponent_name,
     answer_a |-> self.answer_a, answer_b |-> self.answer_b,
     answer_defending_letter |-> self.answer_defending_letter,
     answer_opposing_letter |-> self.answer_opposing_letter]

\* the position the arguments of an initialPosition describe: the two answers
\* as given, or for an interactive debater the texts of the letters A and B
\* and each role's letter and text
GivenPosition(class, args) ==
    IF class # "IDebater"
    THEN [question |-> Str(args.question),
          answer_defending |-> Str(args.answer_defending),
          answer_opposing |-> Str(args.answer_opposing),
          opponent_name |-> Unset, answer_a |-> Unset, answer_b |-> Unset,
          answer_defending_letter |-> Unset, answer_opposing_letter |-> Unset]
    ELSE LET d == args.answer_defending
             o == args.answer_opposing
             l == CHOOSE k \in Letters : k \in DOMAIN d
             m == CHOOSE k \in Letters : k \in DOMAIN o
             both == [k \in Letters |-> IF k = l THEN d[k] ELSE o[k]]
         IN [question |-> Str(args.question),
             answer_defending |-> Str(d[l]),
             answer_opposing |-> Str(o[m]),
             opponent_name |-> Str(args.opponent_name),
             answer_a |-> Str(both["A"]), answer_b |-> Str(both["B"]),
             answer_defending_letter |-> Str(<<l>>),
             answer_opposing_letter |-> Str(<<m>>)]

\* C26: with two experts operated in any order, an operation on one leaves
\* the other as it was; each expert's round is the number of its own
\* constructArgument calls that returned, and its position changes only with
\* its own initialPosition, to the position that call was given
C26_ExpertsAreIsolated ==
    /\ [](\A e \in Pair : experts[e].current_round = Len(history[e]))
    /\ [][\A e \in Pair :
            /\ last'.e # e =>
                  /\ experts'[e] = experts[e]
                  /\ history'[e] = history[e]
            /\ (last'.e = e /\ last'.op = "initial_position") =>
                  /\ last'.err = ""
                  /\ StoredPosition(experts'[e]) = GivenPosition(experts[e].class, last'.args)
                  /\ experts'[e].current_round = experts[e].current_round
            /\ (last'.e = e /\ last'.op # "initial_position") =>
                  StoredPosition(experts'[e]) = StoredPosition(experts[e])]_vars

\* a debater in round two on Q1 beside an interactive debater in round one on
\* Q2, after the interactive debater's latest argument
C26_Witness ==
    /\ experts["e1"].class = "Debater"
    /\ experts["e2"].class = "IDebater"
    /\ experts["e1"].current_round = 2
    /\ experts["e2"].current_round = 1
    /\ experts["e1"].question = Str(<<"Q1">>)
    /\ experts["e2"].question = Str(<<"Q2">>)
    /\ experts["e2"].answer_defending_letter = Str(<<"B">>)
    /\ last.op = "construct_argument" /\ last.e = "e2" /\ last.err = ""
    /\ Len(history["e1"]) = 2


\* the lines of a dry run: one for each task, with its command
RECURSIVE DryRunLines(_, _)
DryRunLines(plan, verbose) ==
    IF plan = <<>> THEN <<>>
    ELSE (IF verbose THEN <<<<"Executing: ">> \o Join(TASKS[Head(plan)])>> ELSE <<>>)
         \o <<<<"[DRY-RUN] ">> \o Join(TASKS[Head(plan)])>>
         \o DryRunLines(Tail(plan), verbose)

\* C27: with --dry-run no command starts a subprocess: each run_command call
\* prints the command and returns, for a single task and for each step of
\* "all", and the process ends with code 0
C27_DryRunStartsNothing ==
    (task.pc \in {"running", "exited"} /\ task.dry_run) =>
       LET plan == Plan(task.name, task.interactive)
           done == Len(plan) - Len(task.todo)
       IN /\ task.ran = <<>>
          /\ task.err = <<>>
          /\ task.code = 0
          /\ task.out = DryRunLines(SubSeq(plan, 1, done), task.verbose)
          /\ task.pc = "exited" <=> task.todo = <<>>

\* a dry run of "all" has ended after printing its three commands
C27_Witness ==
    /\ task.pc = "exited" /\ task.name = "all" /\ task.dry_run /\ ~task.verbose
    /\ task.ran = <<>>
    /\ Len(task.out) = 3
    /\ task.out[2] = <<"[DRY-RUN] ", "docker", " ", "build", " ", "-t", " ",
                       "ai-debate-backend", " ", "-f", " ", "backend/Dockerfile", " ", ".">>


\* C28: constructArgument, whether it returns or raises, leaves the stored
\* position as it was: the question, the defending and the opposing answer,
\* and for an interactive debater the opponent's name, the texts of A and B
\* and the two letters
C28_ArgumentKeepsPosition ==
    [][\A e \in Experts :
         (last'.op = "construct_argument" /\ last'.e = e) =>
            StoredPosition(experts'[e]) = StoredPosition(experts[e])]_vars

\* an interactive debater defending B has built its second argument and still
\* holds the position it was given
C28_Witness ==
    \E e \in Experts :
       /\ experts[e].class = "IDebater"
       /\ last.op = "construct_argument" /\ last.e = e /\ last.err = ""
       /\ experts[e].current_round = 2
       /\ StoredPosition(experts[e]) =
             [question |-> Str(<<"Q1">>),
              answer_defending |-> Str(<<"Y">>), answer_opposing |-> Str(<<"X">>),
              opponent_name |-> Str(<<"Bob">>),
              answer_a |-> Str(<<"X">>), answer_b |-> Str(<<"Y">>),
              answer_defending_letter |-> Str(<<"B">>),
              answer_opposing_letter |-> Str(<<"A">>)]


\* C29: for well-formed maps, an interactive initialPosition called with the
\* defending and the opposing map exchanged stores the same answer_a and
\* answer_b and exchanges the defending and the opposing letter, and the role
\* texts with them
C29_SwapExchangesLetters ==
    \A e \in Experts :
       (/\ experts[e].class = "IDebater"
        /\ last.op = "initial_position" /\ last.e = e
        /\ WellFormed(last.args.answer_defending, last.args.answer_opposing))
       => LET self == experts[e]
              swapped == IDebater_initial_position(self, last.args.question,
                                                   last.args.answer_opposing,
                                                   last.args.answer_defending,
                                                   last.args.opponent_name).self
          IN /\ IsSet(self.answer_a) /\ IsSet(self.answer_b)
             /\ swapped.answer_a = self.answer_a
             /\ swapped.answer_b = self.answer_b
             /\ swapped.answer_defending_letter = self.answer_opposing_letter
             /\ swapped.answer_opposing_letter = self.answer_defending_letter
             /\ self.answer_defending_letter # self.answer_opposing_letter
             /\ swapped.answer_defending = self.answer_opposing
             /\ swapped.answer_opposing = self.answer_defending

\* a position with distinct texts, defending A, whose exchange defends B
C29_Witness ==
    \E e \in Experts :
       /\ experts[e].class = "IDebater"
       /\ last.op = "initial_position" /\ last.e = e /\ last.err = ""
       /\ last.args.answer_defending = [k \in {"A"} |-> <<"X">>]
       /\ last.args.answer_opposing = [k \in {"B"} |-> <<"Y">>]
       /\ experts[e].answer_defending_letter = Str(<<"A">>)
       /\ IDebater_initial_position(experts[e], last.args.question,
                                    last.args.answer_opposing,
                                    last.args.answer_defending,
                                    last.args.opponent_name).self.answer_defending_letter
             = Str(<<"B">>)


\* C30: an interactive initialPosition returns only when the two maps give
\* both letters a non-empty text: whenever it returns, answer_a and answer_b
\* are non-empty texts, and it raises when a letter is left without text
C30_BothLettersHaveText ==
    \A e \in Experts :
       (/\ experts[e].class = "IDebater"
        /\ last.op = "initial_position" /\ last.e = e)
       => LET d == last.args.answer_defending
              o == last.args.answer_opposing
              supplied == {l \in Letters :
                             \/ l \in DOMAIN d /\ d[l] # <<>>
                             \/ l \in DOMAIN o /\ o[l] # <<>>}
          IN /\ last.err = "" =>
                  /\ Truthy(experts[e].answer_a)
                  /\ Truthy(experts[e].answer_b)
             /\ supplied # Letters => last.err # ""


\* C31: the command-line session ends: after three constructArgument rounds
\* when every provider call returns, with the consultant in round 3 and the
\* thinking advice of the first, the nth and the nth round used in that order;
\* or at the first provider call that raises, which is not repeated and is
\* followed by no further round
C31_SessionEnds ==
    /\ <>(cli.pc \in {"done", "raised"})
    /\ [](LET e == CliExpert
              n == Len(cli.log)
              provider == SelectSeq(cli.log, LAMBDA x : x.op = "provider")
          IN /\ experts[e].current_round <= 3
             /\ Len(cli.passed) <= 3
             /\ cli.pc = "done" =>
                   /\ cli.round = 3
                   /\ experts[e].current_round = 3
                   /\ Len(cli.passed) = 3
                   /\ [i \in 1..Len(history[e]) |-> history[e][i].thinking]
                         = <<"first_round_thinking", "nth_round_thinking",
                             "nth_round_thinking">>
                   /\ Len(provider) = 4
                   /\ Len(cli.replies) = 4
                   /\ cli.printed = cli.transcript
             /\ cli.pc = "raised" =>
                   /\ n > 0
                   /\ modules = ModulesWith("none") =>
                         last.op = "call_api" /\ last.err = "APIError"
                   /\ last.op = "call_api" =>
                         /\ last.err # ""
                         /\ Len(wire) = 1
                         /\ cli.log[n] = Event("provider", cli.prompt, "")
                         /\ cli.log[n - 1].op # "provider"
                         /\ Len(provider) = Len(cli.replies) + 1
                         /\ experts[e].current_round = Len(cli.passed)
                   /\ last.op # "call_api" => cli.log[n].err # "")
    /\ [][cli.pc \in {"done", "raised"} => vars' = vars]_vars

\* the session has ended after three rounds with the consultant in round 3
C31_Witness ==
    /\ cli.pc = "done"
    /\ experts[CliExpert].current_round = 3
    /\ Len(history[CliExpert]) = 3
    /\ history[CliExpert][2].thinking = "nth_round_thinking"
    /\ Len(cli.replies) = 4
    /\ cli.printed # <<>>


\* the exit code a failed command ends the process with
ExitCode(result) ==
    IF result.kind = "CalledProcessError" THEN result.returncode
    ELSE IF result.kind = "FileNotFoundError" THEN 127
    ELSE 1

\* C32: "all" runs run-tests, build-image and run-image in that order; a step
\* is started only when every earlier step succeeded; at the first step that
\* fails the process says it stops and exits with that step's exit code (127
\* when the command is not found), and the remaining steps are not run
C32_AllStopsAtFirstFailure ==
    /\ []((task.name = "all" /\ ~task.dry_run /\ task.pc \in {"running", "exited"}) =>
            LET plan == <<"run-tests", "build-image", "run-image">>
                n == Len(task.ran)
            IN /\ n <= 3
               /\ \A i \in 1..n :
                     /\ task.ran[i].command = TASKS[plan[i]]
                     /\ i < n => task.ran[i].result.kind = "ok"
               /\ task.pc = "running" =>
                     /\ \A i \in 1..n : task.ran[i].result.kind = "ok"
                     /\ task.todo = SubSeq(plan, n + 1, 3)
                     /\ n < 3
                     /\ task.err = <<>>
               /\ task.pc = "exited" =>
                     /\ n >= 1
                     /\ IF task.ran[n].result.kind = "ok"
                        THEN /\ n = 3
                             /\ task.code = 0
                             /\ task.err = <<>>
                        ELSE /\ task.code = ExitCode(task.ran[n].result)
                             /\ task.code # 0
                             /\ Len(task.err) = 2
                             /\ task.err[2] = <<"Stopping execution due to a failure.">>
                             /\ task.todo = SubSeq(plan, n, 3))
    /\ [][task.pc = "exited" => task' = task]_vars

\* the tests passed, docker was not found for build-image, and "all" exited
\* with 127 before run-image
C32_Witness ==
    /\ task.name = "all" /\ task.pc = "exited" /\ ~task.dry_run
    /\ Len(task.ran) = 2
    /\ task.ran[1].result.kind = "ok"
    /\ task.ran[2].command[2] = "build"
    /\ task.ran[2].result.kind = "FileNotFoundError"
    /\ task.code = 127
    /\ task.todo = <<"build-image", "run-image">>

====
